---- MODULE Spec2Model ----
(***************************************************************************)
(* Model of the Smart-Travel-Planner-Agent tool functions (src/tools.py)   *)
(* and of the itinerary assembler (src/agent.py).                          *)
(*                                                                         *)
(* Conventions                                                             *)
(*  - A Python str that the code inspects character by character (the      *)
(*    route's distance text, a CSV cell handed to float()) is a sequence   *)
(*    of one-character strings.                                            *)
(*  - A Python float that came from decimal text is a record               *)
(*    [m |-> mantissa, e |-> decimals], standing for m / 10^e.             *)
(*  - A returned message is a sequence of fragments, in order: Lit(s) a    *)
(*    literal piece of the source's f-string, Str(s) an interpolated       *)
(*    string, Fix(n, p) a number formatted to p decimals (n in units of    *)
(*    10^-p).                                                              *)
(*  - A call's outcome is [kind |-> "return", val |-> v] or                *)
(*    [kind |-> "raise", exc |-> <exception class>].                       *)
(***************************************************************************)
EXTENDS Integers, Sequences, FiniteSets, TLC

VARIABLES
    csvFile,    \* emission_factors.csv as found on disk by the current call
    emCall,     \* last estimate_transport_emissions call: its arguments
    emOut,      \* ... and its outcome
    fmtCall,    \* last _format_distance_km call: its argument (optional text)
    fmtOut,     \* ... and its outcome
    toolCall,   \* the tool function being called, with its arguments
    toolOut,    \* its outcome
    toolEv,     \* the requests it sent out, in order, each with its answer
    amadeusCreds,       \* AMADEUS_API_KEY and AMADEUS_API_SECRET are both set
    amadeusToken,       \* _AMADEUS_TOKEN: the cached token (optional text)
    amadeusTokenExp,    \* _AMADEUS_TOKEN_EXP: its expiry (seconds)
    now,                \* the clock (seconds)
    agent,      \* the ItineraryAgent constructed, if any: its fields
    itinCall,   \* the itinerary call made, with its arguments and environment
    itinOut,    \* its outcome
    itinEv,     \* the requests and collaborator calls it made, in order
    itinLocals, \* create_itinerary's local variables, as far as assigned
    geoSession, \* the geocode_city invocations made so far, in order: each
                \* with its place name, its outcome and the requests it sent
    tokPc,      \* per thread in _amadeus_get_token: where it stands
    tokLocal,   \* ... and its local variables
    tokLog,     \* the token requests sent so far, in order, each with its thread
    tokWrites,  \* the writes to the two cache globals so far, in order: the
                \* global written, the value, and the request (its place in
                \* tokLog) whose answer the value comes from
    pkgEnv,     \* what the imports of src/__init__.py meet: the outcome of
                \* `from agent import`, __package__, `from .agent import`, `from tools import`
    pkgNames,   \* the package's namespace once imported (name -> binding), if imported
    pkgOut      \* the last use of an exported callable: its name and outcome

toolVars == <<toolCall, toolOut, toolEv>>
procVars == <<amadeusCreds, amadeusToken, amadeusTokenExp, now>>
pureVars == <<csvFile, emCall, emOut, fmtCall, fmtOut>>
itinVars == <<agent, itinCall, itinOut, itinEv, itinLocals>>
pkgVars == <<pkgEnv, pkgNames, pkgOut>>
sessVars == <<geoSession, tokPc, tokLocal, tokLog, tokWrites, pkgEnv, pkgNames, pkgOut>>
vars == <<csvFile, emCall, emOut, fmtCall, fmtOut, toolCall, toolOut, toolEv,
          amadeusCreds, amadeusToken, amadeusTokenExp, now,
          agent, itinCall, itinOut, itinEv, itinLocals,
          geoSession, tokPc, tokLocal, tokLog, tokWrites, pkgEnv, pkgNames, pkgOut>>

\* Optional values (Python's None or a value): the empty or the one-element tuple.
None == <<>>
Some(v) == <<v>>
IsNone(o) == o = <<>>
Val(o) == o[1]

Return(v) == [kind |-> "return", val |-> v]
Raise(x) == [kind |-> "raise", exc |-> x]

(***************************************************************************)
(* Decimal numbers.                                                        *)
(***************************************************************************)
RECURSIVE Pow10(_)
Pow10(n) == IF n = 0 THEN 1 ELSE 10 * Pow10(n - 1)

Dec(m, e) == [m |-> m, e |-> e]

\* Python truthiness of an optional float: None and 0.0 are false.
FloatTruthy(o) == ~IsNone(o) /\ Val(o).m # 0

\* d < n for a decimal d and an integer n
DecLess(d, n) == d.m < n * Pow10(d.e)

\* num/den rounded to the nearest integer, as the format specs .1f and .2f
\* round the binary double: the double nearest to a decimal that lies exactly
\* halfway is a little above it or a little below it (or the decimal itself,
\* and then the tie goes to even), so a tie may come out either way.
RoundNearest(num, den) ==
    LET q == num \div den
        r == num % den
    IN  IF 2 * r < den THEN {q}
        ELSE IF 2 * r > den THEN {q + 1}
        ELSE {q, q + 1}

\* f"{d:.<places>f}": the decimal d in units of 10^-places (the possible values)
Fmt(d, places) == RoundNearest(d.m * Pow10(places), Pow10(d.e))

(***************************************************************************)
(* float(text) on text over digits and "."  (src/agent.py:111,             *)
(* src/tools.py:389).  Signs, exponents, inf/nan, underscores and          *)
(* surrounding blanks, which float() also accepts, are not in the          *)
(* alphabets the model draws, so any other character is a ValueError.      *)
(***************************************************************************)
Digits == {"0", "1", "2", "3", "4", "5", "6", "7", "8", "9"}

DigitVal(c) ==
    CASE c = "0" -> 0 [] c = "1" -> 1 [] c = "2" -> 2 [] c = "3" -> 3
      [] c = "4" -> 4 [] c = "5" -> 5 [] c = "6" -> 6 [] c = "7" -> 7
      [] c = "8" -> 8 [] c = "9" -> 9

Count(s, c) == Cardinality({i \in 1..Len(s) : s[i] = c})

RECURSIVE DigitsValue(_)
DigitsValue(s) ==
    IF s = <<>> THEN 0
    ELSE 10 * DigitsValue(SubSeq(s, 1, Len(s) - 1)) + DigitVal(s[Len(s)])

Without(s, c) == SelectSeq(s, LAMBDA x : x # c)

PyFloatOk(s) ==
    /\ \A i \in 1..Len(s) : s[i] \in Digits \cup {"."}
    /\ Count(s, ".") <= 1
    /\ \E i \in 1..Len(s) : s[i] \in Digits

PyFloat(s) ==
    IF ~PyFloatOk(s) THEN Raise("ValueError")
    ELSE LET dot == IF Count(s, ".") = 0 THEN Len(s) + 1
                    ELSE CHOOSE i \in 1..Len(s) : s[i] = "."
         IN  Return(Dec(DigitsValue(Without(s, ".")), IF dot > Len(s) THEN 0 ELSE Len(s) - dot))

(***************************************************************************)
(* Message fragments.                                                      *)
(***************************************************************************)
Lit(s) == [lit |-> s]
Str(s) == [str |-> s]
Fix(n, p) == [fix |-> n, places |-> p]

Has(msg, frag) == \E i \in 1..Len(msg) : msg[i] = frag

\* ", ".join(keys)
RECURSIVE Join(_)
Join(keys) ==
    IF keys = <<>> THEN <<>>
    ELSE IF Len(keys) = 1 THEN <<Str(keys[1])>>
    ELSE <<Str(keys[1]), Lit(", ")>> \o Join(Tail(keys))

(***************************************************************************)
(* estimate_transport_emissions (src/tools.py:382-394).                    *)
(*                                                                         *)
(* The file is [exists, header, rows]; a row gives for each column its     *)
(* cell, an optional text (None for a cell the line does not have, which   *)
(* DictReader fills with None).                                            *)
(***************************************************************************)
Range(s) == {s[i] : i \in 1..Len(s)}

\* factors[row["mode"]] = float(row["grams_co2_per_km"]) for one row: the
\* right-hand side is evaluated first.
RowFactor(header, row) ==
    IF "grams_co2_per_km" \notin header THEN Raise("KeyError")
    ELSE IF IsNone(row.grams) THEN Raise("TypeError")
    ELSE LET f == PyFloat(Val(row.grams))
         IN  IF f.kind = "raise" THEN f
             ELSE IF "mode" \notin header THEN Raise("KeyError")
             ELSE f

\* The loop of lines 388-389 over rows i..Len(rows), from the dict built so
\* far: keys in insertion order, val the factor of each key.
RECURSIVE LoadRows(_, _, _, _, _)
LoadRows(header, rows, i, keys, val) ==
    IF i > Len(rows) THEN Return([keys |-> keys, val |-> val])
    ELSE LET f == RowFactor(header, rows[i])
             k == rows[i].mode
         IN  IF f.kind = "raise" THEN f
             ELSE LoadRows(header, rows, i + 1,
                           IF k \in Range(keys) THEN keys ELSE Append(keys, k),
                           [x \in Range(keys) \cup {k} |->
                               IF x = k THEN f.val ELSE val[x]])

\* lines 384-389: open() and the DictReader loop
LoadFactors(file) ==
    IF ~file.exists THEN Raise("FileNotFoundError")
    ELSE LoadRows(file.header, file.rows, 1, <<>>, <<>>)

\* line 391
UnsupportedMsgDropsLast(mode, keys) ==
    <<Lit("Mode '"), Str(mode), Lit("' not supported. Choose from: ")>>
        \o Join(IF keys = <<>> THEN keys ELSE SubSeq(keys, 1, Len(keys) - 1))

UnsupportedMsg(mode, keys) ==
    <<Lit("Mode '"), Str(mode), Lit("' not supported. Choose from: ")>>
        \o Join(keys)

\* lines 392-393: grams = factor * distance_km; kg = grams / 1000.0
KgOfGrams(factor, dist) == Dec(factor.m * dist.m, factor.e + dist.e)

KgOf(factor, dist) == Dec(factor.m * dist.m, factor.e + dist.e + 3)

\* line 394: the strings the f-string can produce
EstimateMsg(mode, dist, kg) ==
    {<<Lit("Estimated emissions for "), Fix(t, 1), Lit(" km by "),
       Str(mode), Lit(": "), Fix(h, 2), Lit(" kg CO2")>> :
        t \in Fmt(dist, 1), h \in Fmt(kg, 2)}

\* mode: a string; dist: an optional decimal (the callers can pass None).
\* The set of the call's possible outcomes.
EstimateTransportEmissions(file, mode, dist) ==
    LET t == LoadFactors(file)
    IN  IF t.kind = "raise" THEN {t}
        ELSE IF mode \notin Range(t.val.keys)
             THEN {Return(UnsupportedMsg(mode, t.val.keys))}
        ELSE IF IsNone(dist) THEN {Raise("TypeError")}
        ELSE {Return(msg) :
                msg \in EstimateMsg(mode, Val(dist), KgOf(t.val.val[mode], Val(dist)))}

(***************************************************************************)
(* Calls of estimate_transport_emissions.                                  *)
(***************************************************************************)
MaxRows == 2

Chars(str) ==
    CASE str = "41" -> <<"4", "1">>
      [] str = "2.5" -> <<"2", ".", "5">>
      [] str = "0" -> <<"0">>
      [] str = "n/a" -> <<"n", "/", "a">>

TableModes == {"train", "car_electric"}
CsvCells == {Some(Chars(c)) : c \in {"41", "2.5", "0", "n/a"}} \cup {None}
CsvRows == [mode : TableModes, grams : CsvCells]
FullHeader == {"mode", "grams_co2_per_km"}

SeqsUpTo(S, n) == UNION {[1..k -> S] : k \in 0..n}

CsvFiles ==
    {[exists |-> FALSE, header |-> FullHeader, rows |-> <<>>]}
      \cup [exists : {TRUE}, header : {FullHeader, {"mode"}, {"grams_co2_per_km"}},
            rows : SeqsUpTo(CsvRows, MaxRows)]

CallModes == TableModes \cup {"spaceship"}
CallDists ==
    {None} \cup {Some(d) : d \in {Dec(0, 0), Dec(1, 0), Dec(5, 1), Dec(100, 0),
                                  Dec(7999, 1), Dec(800, 0), Dec(1234, 0)}}

Idle == [kind |-> "idle"]
NoCall == [op |-> "none"]
NoTool ==
    /\ toolCall = NoCall /\ toolOut = Idle /\ toolEv = <<>>
    /\ amadeusCreds = FALSE /\ amadeusToken = None /\ amadeusTokenExp = 0 /\ now = 0

NoItinerary ==
    /\ agent = None /\ itinCall = NoCall /\ itinOut = Idle /\ itinEv = <<>>
    /\ itinLocals = <<>>

Threads == {1, 2}

NoSession ==
    /\ geoSession = <<>>
    /\ tokPc = [t \in Threads |-> "idle"]
    /\ tokLocal = [t \in Threads |-> <<>>]
    /\ tokLog = <<>>
    /\ tokWrites = <<>>
    /\ pkgEnv = [absolute |-> "ok", package |-> FALSE, relative |-> "ok", tools |-> "ok"]
    /\ pkgNames = <<>>
    /\ pkgOut = [kind |-> "idle"]

InitEmissions ==
    /\ csvFile \in CsvFiles
    /\ emCall \in [mode : CallModes, dist : CallDists]
    /\ emOut = Idle
    /\ fmtCall = None
    /\ fmtOut = Idle
    /\ NoTool
    /\ NoItinerary
    /\ NoSession

\* One call of estimate_transport_emissions(mode, distance_km).
EstimateCall ==
    /\ emOut = Idle
    /\ emOut' \in EstimateTransportEmissions(csvFile, emCall.mode, emCall.dist)
    /\ UNCHANGED <<csvFile, emCall, fmtCall, fmtOut, toolVars, procVars, itinVars, sessVars>>

NextEmissions == EstimateCall

SpecEmissions == InitEmissions /\ [][NextEmissions]_vars

(***************************************************************************)
(* Properties of estimate_transport_emissions.                             *)
(***************************************************************************)
Abs(x) == IF x < 0 THEN -x ELSE x

\* The factor the table gives a mode: the cell of the last row naming it.
LastRowOf(rows, m) ==
    rows[CHOOSE i \in 1..Len(rows) :
            /\ rows[i].mode = m
            /\ \A j \in (i + 1)..Len(rows) : rows[j].mode # m]

EstimateReturned == emOut.kind = "return"
ModeInTable == \E i \in 1..Len(csvFile.rows) : csvFile.rows[i].mode = emCall.mode

\* C1: for a mode of the factor table and a non-negative distance d, the
\* returned string names the mode, gives d (to one decimal), and reports
\* factor[m] * d / 1000 kg to two decimals: the reported hundredths are
\* within half a hundredth of the exact quotient.
C1_EmissionsFormula ==
    (EstimateReturned /\ ModeInTable /\ ~IsNone(emCall.dist)) =>
        LET msg == emOut.val
            d == Val(emCall.dist)
            f == PyFloat(Val(LastRowOf(csvFile.rows, emCall.mode).grams)).val
            scale == Pow10(f.e + d.e)
        IN  /\ Len(msg) = 7
            /\ msg[1] = Lit("Estimated emissions for ")
            /\ msg[2].places = 1
            /\ 2 * Abs(msg[2].fix * Pow10(d.e) - 10 * d.m) <= Pow10(d.e)
            /\ msg[4] = Str(emCall.mode)
            /\ msg[6].places = 2
            /\ 2 * Abs(msg[6].fix * 1000 * scale - 100 * f.m * d.m) <= 1000 * scale
            /\ msg[7] = Lit(" kg CO2")

C1_Witness ==
    /\ EstimateReturned /\ ModeInTable /\ ~IsNone(emCall.dist)
    /\ emCall.mode = "train" /\ emCall.dist = Some(Dec(100, 0))
    /\ emOut.val[2] = Fix(1000, 1)
    /\ emOut.val[6] = Fix(410, 2)

\* C2: for a mode that is not a key of the (loaded) table, whatever the
\* distance, the returned message contains the mode's name and lists every
\* key of the table.
C2_UnsupportedModeListsKeys ==
    (EstimateReturned /\ ~ModeInTable) =>
        /\ Has(emOut.val, Lit("' not supported. Choose from: "))
        /\ Has(emOut.val, Str(emCall.mode))
        /\ \A i \in 1..Len(csvFile.rows) : Has(emOut.val, Str(csvFile.rows[i].mode))

C2_Witness ==
    /\ EstimateReturned /\ ~ModeInTable
    /\ emCall.mode = "spaceship"
    /\ Cardinality({csvFile.rows[i].mode : i \in 1..Len(csvFile.rows)}) = 2

\* C3: every call of estimate_transport_emissions (with a distance, as its
\* signature asks) returns a string and none raises, also when the mode is
\* unsupported and when the factor table cannot be loaded.
C3_EstimateNeverRaises == ~IsNone(emCall.dist) => emOut.kind # "raise"

(***************************************************************************)
(* _format_distance_km (src/agent.py:103-111).                             *)
(***************************************************************************)
NumClass == Digits \cup {",", "."}      \* [0-9,.]
Space == {" "}                          \* \s, for the blanks the model draws

\* The end (exclusive) of the longest run of characters of class C from i.
RECURSIVE RunEnd(_, _, _)
RunEnd(s, i, C) ==
    IF i > Len(s) \/ s[i] \notin C THEN i ELSE RunEnd(s, i + 1, C)

\* ([0-9,.]+)\s*km matches at i: both repetitions are greedy, and giving
\* characters back cannot help, since the character after a shorter run is of
\* the run's own class, neither a blank nor "k".
MatchAt(s, i) ==
    /\ s[i] \in NumClass
    /\ LET k == RunEnd(s, RunEnd(s, i, NumClass), Space)
       IN  k + 1 <= Len(s) /\ s[k] = "k" /\ s[k + 1] = "m"

\* re.search: the leftmost match; its group 1, or None
SearchGroup(s) ==
    IF \E i \in 1..Len(s) : MatchAt(s, i)
    THEN LET i0 == CHOOSE i \in 1..Len(s) :
                      MatchAt(s, i) /\ \A j \in 1..(i - 1) : ~MatchAt(s, j)
         IN  Some(SubSeq(s, i0, RunEnd(s, i0, NumClass) - 1))
    ELSE None

\* m.group(1).replace(",", "")
KeepCommas(g) == g

StripCommas(g) == Without(g, ",")

\* float(...) of line 111: its value is returned, its ValueError propagates
FloatOrRaise(r) == IF r.kind = "raise" THEN r ELSE Return(Some(r.val))

\* text: optional character sequence
FormatDistanceKm(text) ==
    IF IsNone(text) \/ Val(text) = <<>> THEN Return(None)
    ELSE LET g == SearchGroup(Val(text))
         IN  IF IsNone(g) THEN Return(None)
             ELSE FloatOrRaise(PyFloat(StripCommas(Val(g))))

(***************************************************************************)
(* Calls of _format_distance_km.                                           *)
(***************************************************************************)
MaxRun == 5

RunAlphabet == {"0", "1", ",", "."}
Prefixes == {<<>>, <<"x">>, <<"1", " ">>}
Blanks == {<<>>, <<" ">>}
Suffixes == {<<"k", "m">>, <<"m", "i">>, <<"k">>, <<>>}

\* The two examples the documentation of the function gives.
DocExamples == {<<"5", "5", "2", " ", "k", "m">>,
                <<"1", ",", "2", "3", "4", " ", "k", "m">>}

DistanceTexts ==
    {p \o r \o b \o x :
        p \in Prefixes, r \in SeqsUpTo(RunAlphabet, MaxRun), b \in Blanks, x \in Suffixes}
      \cup DocExamples

NoCsv == [exists |-> FALSE, header |-> FullHeader, rows |-> <<>>]
NoEstimate == [mode |-> "", dist |-> None]

InitFormat ==
    /\ csvFile = NoCsv
    /\ emCall = NoEstimate
    /\ emOut = Idle
    /\ fmtCall \in {None} \cup {Some(t) : t \in DistanceTexts}
    /\ fmtOut = Idle
    /\ NoTool
    /\ NoItinerary
    /\ NoSession

\* One call of _format_distance_km(distance_text).
FormatCall ==
    /\ fmtOut = Idle
    /\ fmtOut' = FormatDistanceKm(fmtCall)
    /\ UNCHANGED <<csvFile, emCall, emOut, fmtCall, toolVars, procVars, itinVars, sessVars>>

NextFormat == FormatCall

SpecFormat == InitFormat /\ [][NextFormat]_vars

(***************************************************************************)
(* Properties of _format_distance_km.                                      *)
(***************************************************************************)
IsDigits(s) == \A i \in 1..Len(s) : s[i] \in Digits

\* digits with optional thousands commas: 1 to 3 digits, then groups ",ddd";
\* or digits alone
RECURSIVE IsThousands(_)
IsThousands(s) ==
    \/ Len(s) \in 1..3 /\ IsDigits(s)
    \/ /\ Len(s) > 4
       /\ s[Len(s) - 3] = ","
       /\ IsDigits(SubSeq(s, Len(s) - 2, Len(s)))
       /\ IsThousands(SubSeq(s, 1, Len(s) - 4))

WellFormedNumber(s) == (Len(s) >= 1 /\ IsDigits(s)) \/ IsThousands(s)

KmSuffix == <<" ", "k", "m">>

WellFormedText(t) ==
    /\ Len(t) > 3
    /\ SubSeq(t, Len(t) - 2, Len(t)) = KmSuffix
    /\ WellFormedNumber(SubSeq(t, 1, Len(t) - 3))

FormatDone == fmtOut # Idle

\* C7: a well-formed "<digits with optional thousands commas> km" is mapped
\* to the number its digits spell (commas and unit stripped); None and the
\* empty text are mapped to None.
C7_WellFormedDistanceParses ==
    FormatDone =>
        /\ (IsNone(fmtCall) \/ fmtCall = Some(<<>>)) => fmtOut = Return(None)
        /\ (~IsNone(fmtCall) /\ WellFormedText(Val(fmtCall))) =>
              LET t == Val(fmtCall)
                  ds == SelectSeq(SubSeq(t, 1, Len(t) - 3), LAMBDA c : c \in Digits)
              IN  fmtOut = Return(Some(Dec(DigitsValue(ds), 0)))

C7_Witness ==
    /\ fmtCall = Some(<<"1", ",", "2", "3", "4", " ", "k", "m">>)
    /\ fmtOut = Return(Some(Dec(1234, 0)))

\* The text holds no number the function can parse: the pattern finds no
\* "<run> km", or the run it finds, commas removed, is no number.
Unparsable(t) ==
    \/ ~\E i \in 1..Len(t) : MatchAt(t, i)
    \/ ~PyFloatOk(Without(Val(SearchGroup(t)), ","))

\* C8: for a text that cannot be parsed into a number the function returns
\* None, and it never raises.
C8_UnparsableGivesNone ==
    (FormatDone /\ ~IsNone(fmtCall) /\ Unparsable(Val(fmtCall))) =>
        fmtOut = Return(None)

(***************************************************************************)
(* Exceptions: the classes each raised exception is an instance of, as     *)
(* far as the handlers of the code tell them apart.                        *)
(***************************************************************************)
Classes(exc) ==
    CASE exc = "SSLError" -> {"SSLError", "ConnectionError", "RequestException", "Exception"}
      [] exc = "ConnectionError" -> {"ConnectionError", "RequestException", "Exception"}
      [] exc = "Timeout" -> {"Timeout", "RequestException", "Exception"}
      [] exc = "HTTPError" -> {"HTTPError", "RequestException", "Exception"}
      [] exc = "JSONDecodeError" -> {"JSONDecodeError", "ValueError", "RequestException", "Exception"}
      [] exc = "ModuleNotFoundError" -> {"ModuleNotFoundError", "ImportError", "Exception"}
      [] OTHER -> {exc, "Exception"}

\* except <class>: whether the handler takes the exception
Catches(class, exc) == class \in Classes(exc)

(***************************************************************************)
(* An HTTP exchange.  The answer to a request is                           *)
(*   [net |-> <exception of the transport>]           no response, or      *)
(*   [net |-> "ok", status |-> n, body |-> b]         a response;          *)
(* requests.get / post, raise_for_status and resp.json() turn it into the  *)
(* parsed body or into the exception they raise.                           *)
(***************************************************************************)
NetErrors == {"SSLError", "ConnectionError", "Timeout"}
InvalidJson == [json |-> "invalid"]
Null == [json |-> "null"]

Failed(exc) == [net |-> exc]
Answer(status, body) == [net |-> "ok", status |-> status, body |-> body]

\* requests.get(...); resp.raise_for_status(); resp.json()
GetJson(resp) ==
    IF resp.net # "ok" THEN Raise(resp.net)
    ELSE IF resp.status >= 400 THEN Raise("HTTPError")
    ELSE IF resp.body = InvalidJson THEN Raise("JSONDecodeError")
    ELSE Return(resp.body)

\* One entry of toolEv: a request sent to a provider, and the answer it got.
Req(to, verify, resp) == [to |-> to, verify |-> verify, resp |-> resp]

\* A call's result: its outcome and the requests it sent.
Result(out, ev) == [out |-> out, ev |-> ev]

(***************************************************************************)
(* geocode_city (src/tools.py:330-353).                                    *)
(* A body of the geocoder's answer is Null, [json |-> "list", items |-> s] *)
(* or [json |-> "object"]; an item is [json |-> "object", lat, lon] with   *)
(* optional cells, or [json |-> "string"]; a cell is [num |-> tenths of a  *)
(* degree] or [bad |-> text].                                              *)
(***************************************************************************)
\* float(first.get("lat"))
FloatCell(cell) ==
    IF IsNone(cell) THEN Raise("TypeError")
    ELSE IF "bad" \in DOMAIN Val(cell) THEN Raise("ValueError")
    ELSE Return(Val(cell).num)

\* lines 333-345: the try body
GeocodeBody(resp) ==
    LET j == GetJson(resp)
    IN  IF j.kind = "raise" THEN j
        ELSE IF j.val = Null \/ (j.val.json = "list" /\ j.val.items = <<>>)
             THEN Return(None)
        ELSE IF j.val.json = "object" THEN Raise("KeyError")
        ELSE LET first == j.val.items[1]
             IN  IF first.json # "object" THEN Raise("AttributeError")
                 ELSE LET lat == FloatCell(first.lat)
                          lon == FloatCell(first.lon)
                      IN  IF lat.kind = "raise" THEN lat
                          ELSE IF lon.kind = "raise" THEN lon
                          ELSE Return(Some([lat |-> lat.val, lon |-> lon.val]))

\* lines 346-353: except SSLError / except Exception, both return None
GeocodeHandlersOnlyRequestErrors(r) ==
    IF r.kind = "raise" /\ (Catches("SSLError", r.exc) \/ Catches("RequestException", r.exc))
    THEN Return(None)
    ELSE r

GeocodeHandlers(r) ==
    IF r.kind = "raise" /\ (Catches("SSLError", r.exc) \/ Catches("Exception", r.exc))
    THEN Return(None)
    ELSE r

GeocodeCityRetries(city, answers) ==
    {Result(GeocodeHandlers(GeocodeBody(resp)), <<Req("nominatim", TRUE, resp)>>) :
        resp \in {r \in answers : GetJson(r).kind # "raise"}}
      \cup {Result(GeocodeHandlers(GeocodeBody(again)),
                   <<Req("nominatim", TRUE, resp), Req("nominatim", TRUE, again)>>) :
              resp \in {r \in answers : GetJson(r).kind = "raise"}, again \in answers}

\* The possible results of geocode_city(city), one per answer of the provider.
GeocodeCity(city, answers) ==
    {Result(GeocodeHandlers(GeocodeBody(resp)), <<Req("nominatim", TRUE, resp)>>) :
        resp \in answers}

\* A result that passes an exception on to the caller.
Raised(r) == r.out.kind = "raise"

(***************************************************************************)
(* fetch_weather (src/tools.py:356-379).                                   *)
(* A body of the weather provider's answer is Null, [json |-> "list"] (not *)
(* empty), or [json |-> "object", current_weather |-> c], c an optional    *)
(* Null or [temperature, windspeed] of optional texts.                     *)
(***************************************************************************)
\* f"{x}" of an optional text
Shown(o) == Str(IF IsNone(o) THEN "None" ELSE Val(o))

\* lines 367-374: the try body, given the provider's answer
WeatherBody(city, resp) ==
    LET j == GetJson(resp)
    IN  IF j.kind = "raise" THEN j
        ELSE IF j.val = Null \/ (j.val.json = "object" /\ IsNone(j.val.current_weather))
             THEN Return(<<Lit("Weather in "), Str(city), Lit(": "), Str("None"),
                           Lit(" C, wind "), Str("None"), Lit(" m/s.")>>)
        ELSE IF j.val.json = "list" \/ Val(j.val.current_weather) = Null
             THEN Raise("AttributeError")
        ELSE LET cw == Val(j.val.current_weather)
             IN  Return(<<Lit("Weather in "), Str(city), Lit(": "), Shown(cw.temperature),
                          Lit(" C, wind "), Shown(cw.windspeed), Lit(" m/s.")>>)

\* lines 375-379
WeatherHandlers(r) ==
    IF r.kind = "raise" /\ Catches("SSLError", r.exc)
    THEN Return(<<Lit("Weather API SSL error: certificate verification failed. Raw: "),
                  Str(r.exc)>>)
    ELSE IF r.kind = "raise" /\ Catches("Exception", r.exc)
    THEN Return(<<Lit("Weather API error: "), Str(r.exc)>>)
    ELSE r

\* line 359
CouldNotGeocode(city) == <<Lit("Could not geocode city '"), Str(city), Lit("'.")>>

FetchWeatherUnchecked(city, geoAnswers, answers) ==
    UNION {
        IF Raised(g) THEN {g}
        ELSE IF IsNone(g.out.val) THEN {Result(Raise("TypeError"), g.ev)}
        ELSE {Result(WeatherHandlers(WeatherBody(city, resp)),
                     g.ev \o <<Req("open-meteo", TRUE, resp)>>) : resp \in answers}
        : g \in GeocodeCity(city, geoAnswers)}

FetchWeather(city, geoAnswers, answers) ==
    UNION {
        IF Raised(g) THEN {g}
        ELSE IF IsNone(g.out.val) THEN {Result(Return(CouldNotGeocode(city)), g.ev)}
        ELSE {Result(WeatherHandlers(WeatherBody(city, resp)),
                     g.ev \o <<Req("open-meteo", TRUE, resp)>>) : resp \in answers}
        : g \in GeocodeCity(city, geoAnswers)}

(***************************************************************************)
(* fetch_city_time (src/tools.py:397-419).                                 *)
(***************************************************************************)
Num(n) == [int |-> n]
Time(t) == [time |-> t]

Sign(x) == IF x < 0 THEN -1 ELSE 1

\* round(x) of a float x = num/den that is exactly representable when it
\* lies halfway: to the nearest integer, ties to even.
PyRound(num, den) ==
    LET a == Abs(num)
        q == a \div den
        r == a % den
        n == IF 2 * r < den THEN q
             ELSE IF 2 * r > den THEN q + 1
             ELSE IF q % 2 = 0 THEN q ELSE q + 1
    IN  Sign(num) * n

\* An offset that drops the fraction of lon / 15.
OffsetHoursTruncates(lon) == Sign(lon) * (Abs(lon) \div 150)

\* line 415: int(round(lon / 15.0)), lon in tenths of a degree
OffsetHours(lon) == PyRound(lon, 150)

\* line 418
TzLabel(offset) ==
    IF offset = 0 THEN <<Lit("UTC")>>
    ELSE IF offset >= 0 THEN <<Lit("UTC"), Lit("+"), Num(offset)>>
    ELSE <<Lit("UTC"), Num(offset)>>

SecondsPerHour == 60 * 60

\* utc: the clock (seconds) datetime.utcnow() reads
FetchCityTime(city, geoAnswers, utc) ==
    {IF Raised(g) THEN g
     ELSE IF IsNone(g.out.val)
     THEN Result(Return(<<Lit("Could not determine time for '"), Str(city), Lit("'.")>>), g.ev)
     ELSE LET offset == OffsetHours(Val(g.out.val).lon)
          IN  Result(Return(<<Lit("Approximate local time in "), Str(city), Lit(": "),
                              Time(utc + offset * SecondsPerHour), Lit(" (")>>
                            \o TzLabel(offset) \o <<Lit(")")>>),
                     g.ev)
     : g \in GeocodeCity(city, geoAnswers)}

(***************************************************************************)
(* fetch_air_quality_openmeteo (src/tools.py:146-292).                     *)
(* env: the process environment, [available] the import-time flag          *)
(* _OPENMETEO_AVAILABLE and the four OPENMETEO_* switches (TRUE when the   *)
(* variable equals "1").                                                   *)
(* A body of the JSON endpoint is Null, [json |-> "list"] or               *)
(* [json |-> "object", hourly |-> h], h an optional Null or                *)
(* [pm10, pm2_5], the first value of each series as an optional text.      *)
(* The rich client's answer is [rich |-> "ok"] or                          *)
(* [rich |-> "error", exc |-> class, certText |-> whether str(exc) holds   *)
(* CERTIFICATE_VERIFY_FAILED].                                             *)
(***************************************************************************)
AirUrl == "air-quality-api.open-meteo.com"

\* lines 175-179 (and 191-195, 233-237): the first PM values of the answer
AirValues(resp) ==
    LET j == GetJson(resp)
    IN  IF j.kind = "raise" THEN j
        ELSE IF j.val = Null \/ (j.val.json = "object" /\ IsNone(j.val.hourly))
             THEN Return([pm10 |-> None, pm2_5 |-> None])
        ELSE IF j.val.json = "list" \/ Val(j.val.hourly) = Null
             THEN Raise("AttributeError")
        ELSE Return(Val(j.val.hourly))

PmText(v) == <<Lit("PM10="), Shown(v.pm10), Lit(", PM2.5="), Shown(v.pm2_5)>>

\* lines 183-205: OPENMETEO_AUTO_ACCEPT_UNVERIFIED
AutoAcceptBranch(city, jsonErr, answers, ev) ==
    {LET v == AirValues(resp)
         ev2 == ev \o <<Req(AirUrl, FALSE, resp)>>
     IN  IF v.kind = "return"
         THEN Result(Return(<<Lit("(Insecure auto-accepted SSL) Open-Meteo JSON data for "),
                              Str(city), Lit(": ")>> \o PmText(v.val)
                            \o <<Lit(". Disable by unsetting OPENMETEO_AUTO_ACCEPT_UNVERIFIED.")>>),
                     ev2)
         ELSE Result(Return(<<Lit("Open-Meteo SSL error. Insecure auto attempt failed. JSON error: "),
                              Str(jsonErr), Lit("; Insecure auto error: "), Str(v.exc)>>),
                     ev2)
     : resp \in answers}

\* lines 206-224: OPENMETEO_CAPTURE_CHAIN.  The socket is wrapped with the
\* default (verifying) context; the file is written once the peer's
\* certificate is at hand.
CaptureBranch(jsonErr, captures, ev) ==
    {IF c = "ok"
     THEN Result(Return(<<Lit("Open-Meteo SSL error. Wrote leaf certificate to '"),
                          Str("chain_file"), Lit("'. Error: "), Str(jsonErr)>>),
                 ev \o <<[socket |-> AirUrl], [write |-> "chain_file"]>>)
     ELSE IF c = "write failed"
     THEN Result(Return(<<Lit("Open-Meteo SSL error and certificate capture failed. Error: "),
                          Str(jsonErr), Lit("; Capture error: "), Str("OSError")>>),
                 ev \o <<[socket |-> AirUrl], [write |-> "chain_file"]>>)
     ELSE Result(Return(<<Lit("Open-Meteo SSL error and certificate capture failed. Error: "),
                          Str(jsonErr), Lit("; Capture error: "), Str(c)>>),
                 ev \o <<[socket |-> AirUrl]>>)
     : c \in captures}

\* lines 225-247: OPENMETEO_ALLOW_INSECURE
AllowInsecureBranch(jsonErr, answers, ev) ==
    {LET v == AirValues(resp)
         ev2 == ev \o <<Req(AirUrl, FALSE, resp)>>
     IN  IF v.kind = "return"
         THEN Result(Return(<<Lit("Insecure SSL bypass (NOT recommended) succeeded. Set OPENMETEO_ALLOW_INSECURE=0 to disable. ")>>
                            \o PmText(v.val)),
                     ev2)
         ELSE Result(Return(<<Lit("Open-Meteo SSL error; insecure bypass also failed. JSON fallback error: "),
                              Str(jsonErr), Lit("; Insecure error: "), Str(v.exc)>>),
                     ev2)
     : resp \in answers}

\* lines 248-252
GuidanceMsg(jsonErr) ==
    <<Lit("Open-Meteo JSON request SSL error. Guidance: upgrade certifi, run macOS Install Certificates.command, or set REQUESTS_CA_BUNDLE=/path/to/ca.pem. Export OPENMETEO_ALLOW_INSECURE=1 to bypass (NOT recommended). JSON error: "),
      Str(jsonErr)>>

\* A ladder that looks at OPENMETEO_ALLOW_INSECURE before the other flags.
TlsLadderAllowInsecureFirst(city, env, jsonErr, w, ev) ==
    IF env.allowInsecure THEN AllowInsecureBranch(jsonErr, w.airInsecure, ev)
    ELSE IF env.autoAccept THEN AutoAcceptBranch(city, jsonErr, w.airInsecure, ev)
    ELSE IF env.captureChain THEN CaptureBranch(jsonErr, w.captures, ev)
    ELSE {Result(Return(GuidanceMsg(jsonErr)), ev)}

TlsLadderRetriesInsecurely(city, env, jsonErr, w, ev) ==
    IF env.autoAccept THEN AutoAcceptBranch(city, jsonErr, w.airInsecure, ev)
    ELSE IF env.captureChain THEN CaptureBranch(jsonErr, w.captures, ev)
    ELSE AllowInsecureBranch(jsonErr, w.airInsecure, ev)

\* lines 181-252: the handler of a failed verified request
TlsLadder(city, env, jsonErr, w, ev) ==
    IF env.autoAccept THEN AutoAcceptBranch(city, jsonErr, w.airInsecure, ev)
    ELSE IF env.captureChain THEN CaptureBranch(jsonErr, w.captures, ev)
    ELSE IF env.allowInsecure THEN AllowInsecureBranch(jsonErr, w.airInsecure, ev)
    ELSE {Result(Return(GuidanceMsg(jsonErr)), ev)}

JsonDataPrefix == Lit("Open-Meteo JSON data for ")

\* lines 166-252: _json_request() after the requests ev0
JsonRequest(city, env, w, ev0) ==
    UNION {
        LET v == AirValues(resp)
            ev == ev0 \o <<Req(AirUrl, TRUE, resp)>>
        IN  IF v.kind = "return"
            THEN {Result(Return(<<JsonDataPrefix, Str(city), Lit(": ")>> \o PmText(v.val)), ev)}
            ELSE TlsLadder(city, env, v.exc, w, ev)
        : resp \in w.airJson}

\* A rich client whose every failure is followed by the JSON request.
RichRequestAlwaysFallsBack(city, env, w, ev0) ==
    UNION {
        LET ev == ev0 \o <<[to |-> AirUrl, client |-> "openmeteo_requests", resp |-> a]>>
        IN  IF a.rich = "ok"
            THEN {Result(Return(<<Lit("Air quality data (Open-Meteo) for "), Str(city),
                                  Lit(": "), Str("hourly_dataframe.head()")>>), ev)}
            ELSE {IF r.out.val[1] = JsonDataPrefix
                  THEN Result(Return(<<Lit("Open-Meteo SSL issue with flatbuffers client. ")>>
                                     \o r.out.val), r.ev)
                  ELSE r
                  : r \in JsonRequest(city, env, w, ev)}
        : a \in w.airRich}

\* lines 258-290: the rich client, then the JSON fallback on a TLS failure
RichRequest(city, env, w, ev0) ==
    UNION {
        LET ev == ev0 \o <<[to |-> AirUrl, client |-> "openmeteo_requests", resp |-> a]>>
        IN  IF a.rich = "ok"
            THEN {Result(Return(<<Lit("Air quality data (Open-Meteo) for "), Str(city),
                                  Lit(": "), Str("hourly_dataframe.head()")>>), ev)}
            ELSE IF a.certText \/ Catches("SSLError", a.exc)
            THEN {IF r.out.val[1] = JsonDataPrefix
                  THEN Result(Return(<<Lit("Open-Meteo SSL issue with flatbuffers client. ")>>
                                     \o r.out.val), r.ev)
                  ELSE r
                  : r \in JsonRequest(city, env, w, ev)}
            ELSE {Result(Return(<<Lit("Air quality client error: "), Str(a.exc)>>), ev)}
        : a \in w.airRich}

UnavailableMsg ==
    <<Lit("Open-Meteo detailed client unavailable (missing optional packages: openmeteo_requests, pandas, requests_cache, retry_requests). Install them to enable this feature.")>>

FetchAirQualityIgnoresForceJson(city, env, w) ==
    IF ~env.available THEN {Result(Return(UnavailableMsg), <<>>)}
    ELSE UNION {
        IF Raised(g)
        THEN {Result(Return(<<Lit("Air quality API error (Open-Meteo): "), Str(g.out.exc)>>), g.ev)}
        ELSE IF IsNone(g.out.val) THEN {Result(Return(CouldNotGeocode(city)), g.ev)}
        ELSE RichRequest(city, env, w, g.ev)
        : g \in GeocodeCity(city, w.geo)}

\* w: the answers the providers may give, [geo, airJson, airInsecure, captures, airRich]
FetchAirQuality(city, env, w) ==
    IF ~env.available THEN {Result(Return(UnavailableMsg), <<>>)}
    ELSE UNION {
        IF Raised(g)
        THEN {Result(Return(<<Lit("Air quality API error (Open-Meteo): "), Str(g.out.exc)>>), g.ev)}
        ELSE IF IsNone(g.out.val) THEN {Result(Return(CouldNotGeocode(city)), g.ev)}
        ELSE IF env.forceJson THEN JsonRequest(city, env, w, g.ev)
        ELSE RichRequest(city, env, w, g.ev)
        : g \in GeocodeCity(city, w.geo)}

(***************************************************************************)
(* search_hotels (src/tools.py:422-519).                                   *)
(* A body of the Overpass answer is Null, [json |-> "list"] or             *)
(* [json |-> "object", elements |-> seq]; an element gives, of its tags,   *)
(* [name, stars, address]: the name and the address (as lines 477-484      *)
(* assemble it) as optional texts, the star rating as an optional cell     *)
(* [num |-> n] (text that int() reads) or [bad |-> text].                  *)
(***************************************************************************)
\* lines 460-471
EstimatePrice(stars) ==
    IF IsNone(stars) THEN [mid |-> 140, range |-> "$100-$180"]
    ELSE CASE Val(stars) = 5 -> [mid |-> 325, range |-> "$250-$400"]
           [] Val(stars) = 4 -> [mid |-> 240, range |-> "$180-$300"]
           [] Val(stars) = 3 -> [mid |-> 160, range |-> "$120-$200"]
           [] Val(stars) = 2 -> [mid |-> 100, range |-> "$80-$120"]
           [] Val(stars) = 1 -> [mid |-> 65, range |-> "$50-$80"]
           [] OTHER -> [mid |-> 140, range |-> "$100-$180"]

\* lines 486-490
StarsInt(cell) ==
    IF IsNone(cell) \/ "bad" \in DOMAIN Val(cell) THEN None ELSE Some(Val(cell).num)

OrElse(o, default) == IF IsNone(o) THEN default ELSE Val(o)

\* lines 475-498
Enrich(elem) ==
    LET stars == StarsInt(elem.stars)
        price == EstimatePrice(stars)
    IN  [name |-> OrElse(elem.name, "(unnamed hotel)"),
         address |-> OrElse(elem.address, "(address unavailable)"),
         stars |-> stars,
         mid_price |-> price.mid,
         price_range |-> price.range]

\* list.sort(key=lambda h: h[key]): stable, ascending
RECURSIVE InsertByKey(_, _, _)
InsertByKey(key, x, sorted) ==
    IF sorted = <<>> THEN <<x>>
    ELSE IF x[key] < Head(sorted)[key] THEN <<x>> \o sorted
    ELSE <<Head(sorted)>> \o InsertByKey(key, x, Tail(sorted))

RECURSIVE SortByKey(_, _)
SortByKey(key, s) ==
    IF s = <<>> THEN <<>>
    ELSE InsertByKey(key, s[Len(s)], SortByKey(key, SubSeq(s, 1, Len(s) - 1)))

\* s[:n]
Take(s, n) ==
    IF n >= 0 THEN SubSeq(s, 1, IF n < Len(s) THEN n ELSE Len(s))
    ELSE SubSeq(s, 1, IF Len(s) + n > 0 THEN Len(s) + n ELSE 0)

MidPrice == "mid_price"

\* lines 506-509: one line of the listing
HotelLine(h) ==
    [hotel |-> h.name,
     stars |-> IF ~IsNone(h.stars) /\ Val(h.stars) # 0 THEN h.stars ELSE None,
     address |-> h.address,
     price |-> h.price_range]

\* lines 454-515: the try body after the POST
HotelsBody(city, limit, resp) ==
    LET j == GetJson(resp)
    IN  IF j.kind = "raise" THEN j
        ELSE IF j.val = Null \/ j.val.json = "list" THEN Raise("AttributeError")
        ELSE IF j.val.elements = <<>>
        THEN Return(<<Lit("No hotels found in "), Str(city), Lit(" (within 5.0km radius).")>>)
        ELSE LET top == Take(SortByKey(MidPrice, [i \in 1..Len(j.val.elements) |-> Enrich(j.val.elements[i])]), limit)
             IN  Return(<<Lit("Top "), Num(Len(top)), Lit(" hotels (cheapest first) in "),
                          Str(city), Lit(":")>>
                        \o [i \in 1..Len(top) |-> HotelLine(top[i])]
                        \o <<Lit("Price ranges are heuristic estimates derived from OSM star ratings; they are not real-time prices. For actual rates, consult a booking provider.")>>)

\* lines 516-519
HotelsHandlers(city, r) ==
    IF r.kind = "raise" /\ Catches("SSLError", r.exc)
    THEN Return(<<Lit("Hotel search SSL error for "), Str(city), Lit(". Raw: "), Str(r.exc)>>)
    ELSE IF r.kind = "raise" /\ Catches("Exception", r.exc)
    THEN Return(<<Lit("Hotel search error for "), Str(city), Lit(": "), Str(r.exc)>>)
    ELSE r

\* w: the answers the providers may give, [geo, overpass]
SearchHotels(city, limit, w) ==
    UNION {
        IF Raised(g) THEN {g}
        ELSE IF IsNone(g.out.val)
        THEN {Result(Return(<<Lit("Could not geocode city '"), Str(city),
                              Lit("' for hotel search.")>>), g.ev)}
        ELSE {Result(HotelsHandlers(city, HotelsBody(city, limit, resp)),
                     g.ev \o <<Req("overpass-api.de", TRUE, resp)>>) : resp \in w.overpass}
        : g \in GeocodeCity(city, w.geo)}

(***************************************************************************)
(* _amadeus_get_token (src/tools.py:531-562).                              *)
(* cache: [token, exp], the two module globals.  A body of the token       *)
(* endpoint is Null, [json |-> "list"] or [json |-> "object",              *)
(* access_token |-> optional text, expires_in |-> optional cell            *)
(* [num |-> seconds] or [bad |-> text]].                                   *)
(* A result is [token |-> what the call returns, cache |-> the globals     *)
(* after it, ev |-> the requests sent].                                    *)
(***************************************************************************)
TokenUrl == "test.api.amadeus.com/v1/security/oauth2/token"
DefaultExpiresIn == 1800
SafetyMargin == 60

\* Python truthiness of an optional text
TextTruthy(o) == ~IsNone(o) /\ Val(o) # ""

\* lines 543-562: the refresh, given the provider's answer
TokenRefresh(cache, clock, resp) ==
    LET j == GetJson(resp)
        ev == <<Req(TokenUrl, TRUE, resp)>>
    IN  IF j.kind = "raise" \/ j.val.json = "list"
        THEN [token |-> None, cache |-> cache, ev |-> ev]
        ELSE LET tok == IF j.val = Null THEN None ELSE j.val.access_token
                 exp == IF j.val = Null \/ IsNone(j.val.expires_in)
                        THEN Some([num |-> DefaultExpiresIn])
                        ELSE j.val.expires_in
             IN  IF "bad" \in DOMAIN Val(exp)
                 \* line 555 has stored the token when line 558 raises TypeError
                 THEN [token |-> None, cache |-> [token |-> tok, exp |-> cache.exp], ev |-> ev]
                 ELSE [token |-> tok,
                       cache |-> [token |-> tok, exp |-> clock + Val(exp).num],
                       ev |-> ev]

AmadeusGetToken(creds, cache, clock, answers) ==
    IF ~creds THEN {[token |-> None, cache |-> cache, ev |-> <<>>]}
    ELSE IF TextTruthy(cache.token) /\ clock < cache.exp - SafetyMargin
    THEN {[token |-> cache.token, cache |-> cache, ev |-> <<>>]}
    ELSE {TokenRefresh(cache, clock, resp) : resp \in answers}

(***************************************************************************)
(* search_hotels_realtime (src/tools.py:564-696).                          *)
(* A body of the listing endpoint is Null, [json |-> "list"] or            *)
(* [json |-> "object", data |-> d], d an optional Null or [ids |-> n], n   *)
(* the number of entries that carry a hotelId.                             *)
(* A body of the offers endpoint is Null, [json |-> "list"] or             *)
(* [json |-> "object", data |-> seq] of entries [name, address, offers],   *)
(* an offer being [total, currency]: total an optional cell                *)
(* [num |-> hundredths], [bad |-> text] or [obj |-> TRUE] (not a text),    *)
(* currency an optional text.                                              *)
(* The check-in and check-out dates (lines 584-598) only travel in the     *)
(* request and in the closing disclaimer and are left out.                 *)
(***************************************************************************)
ListingUrl == "test.api.amadeus.com/v1/reference-data/locations/hotels/by-geocode"
OffersUrl == "test.api.amadeus.com/v3/shopping/hotel-offers"
MaxHotelIds == 20

\* requests.get(...), resp.ok, resp.json() (lines 610-619, 641-652): the
\* body, the HTTP status that is not ok, or the exception
GetOk(resp) ==
    IF resp.net # "ok" THEN Raise(resp.net)
    ELSE IF resp.status >= 400 THEN [kind |-> "status", status |-> resp.status]
    ELSE IF resp.body = InvalidJson THEN Raise("JSONDecodeError")
    ELSE Return(resp.body)

\* lines 619-626: the number of hotel ids to ask offers for
ListingIds(body) ==
    IF body = Null \/ (body.json = "object" /\ IsNone(body.data)) THEN Return(0)
    ELSE IF body.json = "list" THEN Raise("AttributeError")
    ELSE IF Val(body.data) = Null THEN Raise("TypeError")
    ELSE Return(IF Val(body.data).ids < MaxHotelIds THEN Val(body.data).ids ELSE MaxHotelIds)

\* lines 661-672 for the offers i..Len(offers) of one entry: the cheapest
\* total so far (optional) and the currency last seen
RECURSIVE Cheapest(_, _, _, _)
Cheapest(offers, i, best, currency) ==
    IF i > Len(offers) THEN Return([price |-> best, currency |-> currency])
    ELSE LET off == offers[i]
             cur == OrElse(off.currency, currency)
         IN  IF IsNone(off.total) \/ "bad" \in DOMAIN Val(off.total)
             THEN Cheapest(offers, i + 1, best, cur)
             ELSE IF "obj" \in DOMAIN Val(off.total) THEN Raise("TypeError")
             ELSE IF IsNone(best) \/ Val(off.total).num < Val(best)
             THEN Cheapest(offers, i + 1, Some(Val(off.total).num), cur)
             ELSE Cheapest(offers, i + 1, best, cur)

\* lines 655-679 for the entries i..Len(data): the priced hotels so far
RECURSIVE PricedHotels(_, _, _)
PricedHotels(data, i, priced) ==
    IF i > Len(data) THEN Return(priced)
    ELSE LET c == Cheapest(data[i].offers, 1, None, "USD")
         IN  IF c.kind = "raise" THEN c
             ELSE PricedHotels(data, i + 1,
                    IF IsNone(c.val.price) THEN priced
                    ELSE Append(priced, [name |-> OrElse(data[i].name, "(unnamed)"),
                                         address |-> OrElse(data[i].address, "(address unavailable)"),
                                         price |-> Val(c.val.price),
                                         currency |-> c.val.currency]))

OfferPrice == "price"

\* line 684
OfferLine(h) ==
    [hotel |-> h.name, address |-> h.address, total |-> Fix(h.price, 2), currency |-> h.currency]

\* The heuristic search after a parenthesised reason (lines 576, 618, ...).
Fallback(reason, city, limit, w, ev) ==
    {IF Raised(r) THEN Result(r.out, ev \o r.ev)
     ELSE Result(Return(reason \o r.out.val), ev \o r.ev)
     : r \in SearchHotels(city, limit, [geo |-> w.geoFallback, overpass |-> w.overpass])}

\* lines 640-696: step 2, the offers of n hotel ids
OffersStep(city, limit, n, w, ev0) ==
    UNION {
        LET ev == ev0 \o <<[to |-> OffersUrl, verify |-> TRUE, resp |-> resp, ids |-> n]>>
            b == GetOk(resp)
            priced == IF b.kind # "return" THEN b
                      ELSE IF b.val = Null THEN Return(<<>>)
                      ELSE IF b.val.json = "list" THEN Raise("AttributeError")
                      ELSE PricedHotels(b.val.data, 1, <<>>)
        IN  IF priced.kind = "status"
            THEN Fallback(<<Lit("(Offers request error "), Num(priced.status), Lit(")")>>,
                          city, limit, w, ev)
            ELSE IF priced.kind = "raise" /\ Catches("SSLError", priced.exc)
            THEN Fallback(<<Lit("(SSL error contacting Amadeus offers: "), Str(priced.exc), Lit(")")>>,
                          city, limit, w, ev)
            ELSE IF priced.kind = "raise"
            THEN Fallback(<<Lit("(Amadeus offers exception: "), Str(priced.exc), Lit(")")>>,
                          city, limit, w, ev)
            ELSE IF priced.val = <<>>
            THEN Fallback(<<Lit("(No priced offers; fallback heuristic list)")>>, city, limit, w, ev)
            ELSE {Result(Return(<<Lit("Real-time hotel prices (Amadeus) in "), Str(city),
                                  Lit(" (cheapest first):")>>
                                \o (LET top == Take(SortByKey(OfferPrice, priced.val), limit)
                                    IN  [i \in 1..Len(top) |-> OfferLine(top[i])])
                                \o <<Lit("Prices from Amadeus Sandbox; may not reflect live market. Verify before booking.")>>),
                         ev)}
        : resp \in w.offers}

\* lines 609-628: step 1, the listing
ListingStep(city, limit, w, ev0) ==
    UNION {
        LET ev == ev0 \o <<Req(ListingUrl, TRUE, resp)>>
            b == GetOk(resp)
            ids == IF b.kind = "return" THEN ListingIds(b.val) ELSE b
        IN  IF ids.kind = "status"
            THEN Fallback(<<Lit("(Amadeus hotel listing error "), Num(ids.status), Lit(")")>>,
                          city, limit, w, ev)
            ELSE IF ids.kind = "raise"
            THEN Fallback(<<Lit("(Amadeus listing exception: "), Str(ids.exc), Lit(")")>>,
                          city, limit, w, ev)
            ELSE IF ids.val = 0
            THEN Fallback(<<Lit("(No hotel IDs from Amadeus geocode; fallback)")>>,
                          city, limit, w, ev)
            ELSE OffersStep(city, limit, ids.val, w, ev)
        : resp \in w.listing}

\* w: the answers the providers may give, [token, geo, listing, offers,
\* geoFallback, overpass], geoFallback to the geocoding request of the
\* heuristic search.  A result carries the token cache the call leaves behind.
WithCache(r, cache) == [out |-> r.out, ev |-> r.ev, cache |-> cache]

SearchHotelsRealtime(city, limit, creds, cache, clock, w) ==
    UNION {
        IF ~TextTruthy(t.token)
        THEN {WithCache(r, t.cache) :
                r \in Fallback(<<Lit("(Real-time pricing unavailable: missing or invalid Amadeus credentials)")>>,
                               city, limit, w, t.ev)}
        ELSE UNION {
                IF Raised(g) THEN {WithCache(Result(g.out, t.ev \o g.ev), t.cache)}
                ELSE IF IsNone(g.out.val)
                THEN {WithCache(Result(Return(CouldNotGeocode(city)), t.ev \o g.ev), t.cache)}
                ELSE {WithCache(r, t.cache) : r \in ListingStep(city, limit, w, t.ev \o g.ev)}
                : g \in GeocodeCity(city, w.geo)}
        : t \in AmadeusGetToken(creds, cache, clock, w.token)}

(***************************************************************************)
(* The answers the providers may give.                                     *)
(***************************************************************************)
MaxHotels == 2

HttpErrors == {Answer(404, Null), Answer(500, Null)}
NoAnswer == {Failed(e) : e \in NetErrors}

Lons == {0, 75, 225, -75, -1224, 1800, -1800} \cup {75 * k : k \in -24..24} \cup {74, 76, -76}
BadCell == Some([bad |-> "abc"])
GeoItem(lat, lon) == [json |-> "object", lat |-> lat, lon |-> lon]
GeoList(items) == Answer(200, [json |-> "list", items |-> items])

\* Every way the geocoder's request can fail to give coordinates.
GeoFailures ==
    NoAnswer \cup HttpErrors
      \cup {Answer(200, InvalidJson), Answer(200, Null), GeoList(<<>>),
            Answer(200, [json |-> "object"]), GeoList(<<[json |-> "string"]>>)}
      \cup {GeoList(<<GeoItem(lat, lon)>>) :
              lat \in {None, BadCell, Some([num |-> 488])},
              lon \in {None, BadCell}}
      \cup {GeoList(<<GeoItem(lat, Some([num |-> 23]))>>) : lat \in {None, BadCell}}

GeoHit(lon) == GeoList(<<GeoItem(Some([num |-> 488]), Some([num |-> lon]))>>)
GeoAll == GeoFailures \cup {GeoHit(lon) : lon \in Lons}
GeoOneHit == GeoFailures \cup {GeoHit(23)}
GeoFew == {Failed("SSLError"), GeoList(<<>>), GeoHit(23)}

OptTexts(S) == {None} \cup {Some(t) : t \in S}

WeatherAnswers ==
    NoAnswer \cup HttpErrors
      \cup {Answer(200, b) :
              b \in {InvalidJson, Null, [json |-> "list"],
                     [json |-> "object", current_weather |-> None],
                     [json |-> "object", current_weather |-> Some(Null)]}
                \cup {[json |-> "object", current_weather |-> Some(cw)] :
                        cw \in [temperature : OptTexts({"18.0"}), windspeed : OptTexts({"5.0"})]}}

AirAnswers ==
    {Failed("SSLError"), Failed("Timeout"), Answer(500, Null)}
      \cup {Answer(200, b) :
              b \in {InvalidJson, Null, [json |-> "object", hourly |-> Some(Null)]}
                \cup {[json |-> "object", hourly |-> Some(h)] :
                        h \in [pm10 : OptTexts({"12.5"}), pm2_5 : {Some("7.1")}]}}

RichAnswers ==
    {[rich |-> "ok"],
     [rich |-> "error", exc |-> "SSLError", certText |-> FALSE],
     [rich |-> "error", exc |-> "OpenMeteoRequestsError", certText |-> TRUE],
     [rich |-> "error", exc |-> "OpenMeteoRequestsError", certText |-> FALSE]}

Captures == {"ok", "write failed", "SSLCertVerificationError", "timeout"}

Envs == [available : BOOLEAN, forceJson : BOOLEAN, autoAccept : BOOLEAN,
         captureChain : BOOLEAN, allowInsecure : BOOLEAN]

Elements ==
    [name : {Some("Ritz")}, address : {None},
     stars : {None, BadCell, Some([num |-> 5]), Some([num |-> 1]), Some([num |-> 0])}]
      \cup {[name |-> None, address |-> None, stars |-> Some([num |-> 1])]}

OverpassAnswers ==
    {Failed("SSLError"), Failed("Timeout"), Answer(500, Null)}
      \cup {Answer(200, b) :
              b \in {InvalidJson, Null, [json |-> "list"]}
                \cup {[json |-> "object", elements |-> e] : e \in SeqsUpTo(Elements, MaxHotels)}}

OverpassFew ==
    {Failed("Timeout"),
     Answer(200, [json |-> "object", elements |-> <<>>]),
     Answer(200, [json |-> "object",
                  elements |-> <<[name |-> Some("Ritz"), address |-> None, stars |-> Some([num |-> 5])],
                                 [name |-> Some("Ibis"), address |-> None, stars |-> Some([num |-> 1])]>>])}

TokenAnswers ==
    {Failed("SSLError"), Answer(401, Null), Answer(200, InvalidJson), Answer(200, Null),
     Answer(200, [json |-> "list"])}
      \cup {Answer(200, [json |-> "object", access_token |-> t, expires_in |-> x]) :
              t \in OptTexts({"tok2", ""}),
              x \in {None, Some([num |-> 900]), Some([bad |-> "soon"])}}

ListingAnswers ==
    {Failed("Timeout"), Answer(401, Null), Answer(200, InvalidJson), Answer(200, Null),
     Answer(200, [json |-> "list"]),
     Answer(200, [json |-> "object", data |-> None]),
     Answer(200, [json |-> "object", data |-> Some(Null)])}
      \cup {Answer(200, [json |-> "object", data |-> Some([ids |-> n])]) :
              n \in {0, 1, MaxHotelIds, MaxHotelIds + 1}}

Offers ==
    [total : {None, Some([bad |-> "n/a"]), Some([obj |-> TRUE]),
              Some([num |-> 9900]), Some([num |-> 12050])},
     currency : {Some("EUR")}]

OfferEntries ==
    [name : {Some("Ritz")}, address : {None}, offers : SeqsUpTo(Offers, 1)]
      \cup {[name |-> None, address |-> Some("1 Rue A"),
             offers |-> <<[total |-> Some([num |-> 12050]), currency |-> None],
                          [total |-> Some([num |-> 9900]), currency |-> Some("EUR")]>>]}

OffersAnswers ==
    {Failed("SSLError"), Failed("Timeout"), Answer(500, Null)}
      \cup {Answer(200, b) :
              b \in {InvalidJson, Null, [json |-> "list"]}
                \cup {[json |-> "object", data |-> d] : d \in SeqsUpTo(OfferEntries, MaxHotels)}}

\* What each tool function may meet.
World ==
    [geo |-> GeoOneHit, weather |-> WeatherAnswers,
     airJson |-> AirAnswers, airInsecure |-> AirAnswers, captures |-> Captures,
     airRich |-> RichAnswers, overpass |-> OverpassAnswers]

RealtimeWorld ==
    [token |-> TokenAnswers, geo |-> GeoOneHit, listing |-> ListingAnswers,
     offers |-> OffersAnswers, geoFallback |-> GeoFew, overpass |-> OverpassFew]

(***************************************************************************)
(* Calls of the tool functions.  A call starts from a process whose token  *)
(* cache is empty, holds a live token or holds an expired one (the states  *)
(* earlier calls of search_hotels_realtime leave behind).                  *)
(***************************************************************************)
Cities == {"Paris"}
Limits == {-1, 0, 1, 5}
UtcNow == 12 * SecondsPerHour

CacheStates ==
    {[creds |-> FALSE, token |-> None, exp |-> 0, now |-> 0],
     [creds |-> TRUE, token |-> None, exp |-> 0, now |-> 0],
     [creds |-> TRUE, token |-> Some("tok1"), exp |-> DefaultExpiresIn, now |-> 0],
     [creds |-> TRUE, token |-> Some("tok1"), exp |-> DefaultExpiresIn,
      now |-> DefaultExpiresIn - SafetyMargin]}

InitTools ==
    /\ csvFile = NoCsv
    /\ emCall = NoEstimate
    /\ emOut = Idle
    /\ fmtCall = None
    /\ fmtOut = Idle
    /\ toolCall = NoCall
    /\ toolOut = Idle
    /\ toolEv = <<>>
    /\ NoItinerary
    /\ NoSession
    /\ \E c \in CacheStates :
          /\ amadeusCreds = c.creds
          /\ amadeusToken = c.token
          /\ amadeusTokenExp = c.exp
          /\ now = c.now

\* The call `call` ends with result r.
Finish(call, r) ==
    /\ toolCall' = call
    /\ toolOut' = r.out
    /\ toolEv' = r.ev
    /\ UNCHANGED <<pureVars, itinVars, sessVars>>

GeocodeCityCall ==
    /\ toolCall = NoCall
    /\ \E city \in Cities : \E r \in GeocodeCity(city, GeoAll) :
        /\ Finish([op |-> "geocode_city", city |-> city], r)
        /\ UNCHANGED procVars

FetchWeatherCall ==
    /\ toolCall = NoCall
    /\ \E city \in Cities : \E r \in FetchWeather(city, World.geo, World.weather) :
        /\ Finish([op |-> "fetch_weather", city |-> city], r)
        /\ UNCHANGED procVars

FetchCityTimeCall ==
    /\ toolCall = NoCall
    /\ \E city \in Cities : \E r \in FetchCityTime(city, GeoAll, UtcNow + now) :
        /\ Finish([op |-> "fetch_city_time", city |-> city], r)
        /\ UNCHANGED procVars

FetchAirQualityCall ==
    /\ toolCall = NoCall
    /\ \E city \in Cities, env \in Envs : \E r \in FetchAirQuality(city, env, World) :
        /\ Finish([op |-> "fetch_air_quality_openmeteo", city |-> city, env |-> env], r)
        /\ UNCHANGED procVars

SearchHotelsCall ==
    /\ toolCall = NoCall
    /\ \E city \in Cities, limit \in Limits : \E r \in SearchHotels(city, limit, World) :
        /\ Finish([op |-> "search_hotels", city |-> city, limit |-> limit], r)
        /\ UNCHANGED procVars

SearchHotelsRealtimeCall ==
    /\ toolCall = NoCall
    /\ \E city \in Cities, limit \in Limits :
      \E r \in SearchHotelsRealtime(city, limit, amadeusCreds,
                                    [token |-> amadeusToken, exp |-> amadeusTokenExp],
                                    now, RealtimeWorld) :
        /\ Finish([op |-> "search_hotels_realtime", city |-> city, limit |-> limit], r)
        /\ amadeusToken' = r.cache.token
        /\ amadeusTokenExp' = r.cache.exp
        /\ UNCHANGED <<amadeusCreds, now>>


(***************************************************************************)
(* _safe_get_route (src/agent.py:84-101).                                  *)
(* A body of the directions answer is Null or [json |-> "object",          *)
(* routes |-> seq]; a route is [legs |-> seq]; a leg is [distance,         *)
(* duration], each None when the key is missing, else Some(text) with the  *)
(* text optional (a JSON null).                                            *)
(* The result's value is [distance, duration, err], each optional.         *)
(***************************************************************************)
RouteTuple(distance, duration, err) ==
    [distance |-> distance, duration |-> duration, err |-> err]

\* lines 93-99: the try body
RouteBody(resp) ==
    LET j == GetJson(resp)
    IN  IF j.kind = "raise" THEN j
        ELSE IF j.val = Null THEN Raise("AttributeError")
        ELSE IF j.val.routes = <<>>
        THEN Return(RouteTuple(None, None, Some(<<Lit("(no routes found)")>>)))
        ELSE IF j.val.routes[1].legs = <<>> THEN Raise("IndexError")
        ELSE LET leg == j.val.routes[1].legs[1]
             IN  IF IsNone(leg.distance) \/ IsNone(leg.duration) THEN Raise("KeyError")
                 ELSE Return(RouteTuple(Val(leg.distance), Val(leg.duration), None))

\* lines 100-101
RouteHandlers(r) ==
    IF r.kind = "raise" /\ Catches("Exception", r.exc)
    THEN Return(RouteTuple(None, None, Some(<<Lit("(route error: "), Str(r.exc), Lit(")")>>)))
    ELSE r

\* mapsKey: GOOGLE_MAPS_API_KEY is set
SafeGetRoute(mapsKey, answers) ==
    IF ~mapsKey
    THEN {Result(Return(RouteTuple(None, None,
                    Some(<<Lit("(route unavailable: missing GOOGLE_MAPS_API_KEY)")>>))), <<>>)}
    ELSE {Result(RouteHandlers(RouteBody(resp)), <<Req("maps.googleapis.com", TRUE, resp)>>) :
            resp \in answers}

(***************************************************************************)
(* ItineraryAgent (src/agent.py:113-184).                                  *)
(***************************************************************************)
Threshold == 800

\* Python truthiness of an optional character sequence / of an optional text
SeqTruthy(o) == ~IsNone(o) /\ Val(o) # <<>>

\* line 143
DistanceKm(distance_text) ==
    IF SeqTruthy(distance_text) THEN FormatDistanceKm(distance_text) ELSE Return(None)

\* line 145, the default mode: "train" if (distance_km and distance_km < 800)
DefaultMode(distance_km) ==
    IF FloatTruthy(distance_km) /\ DecLess(Val(distance_km), Threshold)
    THEN "train" ELSE "car_electric"

\* line 145: mode or (...).  mode is an optional text; the right operand is
\* evaluated only when mode is None or empty.
ChosenModeIgnoresForced(mode, distance_km) ==
    [mode |-> DefaultMode(distance_km), threshold |-> TRUE]

ChosenMode(mode, distance_km) ==
    IF TextTruthy(mode) THEN [mode |-> Val(mode), threshold |-> FALSE]
    ELSE [mode |-> DefaultMode(distance_km), threshold |-> TRUE]

EmissionsUnavailable == <<Lit("(emissions unavailable)")>>

\* line 146: the possible results, the call of the estimator being an event
Emissions(file, mode, distance_km) ==
    IF FloatTruthy(distance_km)
    THEN {Result(o, <<[call |-> "estimate_transport_emissions", mode |-> mode,
                       distance_km |-> distance_km]>>) :
            o \in EstimateTransportEmissions(file, mode, distance_km)}
    ELSE {Result(Return(EmissionsUnavailable), <<>>)}

\* f"{x or 'Unknown'}" of an optional character sequence
TextOrUnknown(o) == IF SeqTruthy(o) THEN [text |-> Val(o)] ELSE Str("Unknown")

ContextSwapsFields(origin, destination, route, weather, air, time_info, emissions, chosen_mode) ==
    <<Lit("Origin: "), Str(origin), Lit("Destination: "), Str(destination),
      Lit("Distance: "), TextOrUnknown(route.distance), Lit(" | Duration: "),
      TextOrUnknown(route.duration)>>
      \o <<Lit("Weather: ")>> \o air
      \o <<Lit("AirQuality: ")>> \o weather
      \o <<Lit("LocalTime: ")>> \o time_info
      \o <<Lit("Emissions: ")>> \o emissions
      \o <<Lit("PreferredMode: "), Str(chosen_mode)>>

\* lines 151-156
Context(origin, destination, route, weather, air, time_info, emissions, chosen_mode) ==
    <<Lit("Origin: "), Str(origin), Lit("Destination: "), Str(destination),
      Lit("Distance: "), TextOrUnknown(route.distance), Lit(" | Duration: "),
      TextOrUnknown(route.duration)>>
      \o <<Lit("Weather: ")>> \o weather
      \o <<Lit("AirQuality: ")>> \o air
      \o <<Lit("LocalTime: ")>> \o time_info
      \o <<Lit("Emissions: ")>> \o emissions
      \o <<Lit("PreferredMode: "), Str(chosen_mode)>>

CannedItinerary ==
    <<Lit("(LLM unavailable) Draft itinerary:"),
      Lit("Day 1: Arrival and orientation; walking tour to minimize transport emissions."),
      Lit("Day 2: Public transit to key sights; choose plant-based meals."),
      Lit("Day 3: Regional nature excursion via train or shared shuttle."),
      Lit("Day 4: Local cultural experiences; support small sustainable businesses."),
      Lit("Day 5: Departure; offset remaining emissions through a reputable program.")>>

\* A prompt that leaves the context out.
PlanningPromptWithoutContext(context) ==
    <<Lit("Using the provided travel context, craft a 3-5 day sustainable itinerary. ")>>

PlanningPrompt(context) ==
    <<Lit("Using the provided travel context, craft a 3-5 day sustainable itinerary. ")>> \o context

\* lines 164-178.  self: [llm_ready] as __init__ left it (lines 124-139).  A
\* model answer is [gen |-> "raise", exc], [gen |-> "no text attribute"],
\* [gen |-> "text raises", exc] or [gen |-> "text", text |-> optional text].
\* The value is the optional llm_text (None when the response's text is None).
LlmText(self, context, answers) ==
    IF ~self.llm_ready THEN {Result(Return(Some(CannedItinerary)), <<>>)}
    ELSE {LET ev == <<[call |-> "generate_content", prompt |-> PlanningPrompt(context),
                       resp |-> a]>>
          IN  IF a.gen = "raise" \/ a.gen = "text raises"
              THEN Result(Return(Some(<<Lit("(LLM generation failed: "), Str(a.exc), Lit(")")>>)), ev)
              ELSE IF a.gen = "no text attribute"
              THEN Result(Return(Some(<<Lit("(no model text)")>>)), ev)
              ELSE IF IsNone(a.text) THEN Result(Return(None), ev)
              ELSE Result(Return(Some(<<Str(Val(a.text))>>)), ev)
          : a \in answers}

AssembleAlwaysRouteStatus(llm_text, context, route_err) ==
    IF IsNone(llm_text) THEN Raise("TypeError")
    ELSE Return(<<Lit("=== Sustainable Travel Itinerary ===")>> \o Val(llm_text)
                \o <<Lit("=== Raw Context ===")>> \o context
                \o <<Lit("RouteStatus: ")>>
                \o (IF IsNone(route_err) THEN <<Str("None")>> ELSE Val(route_err)))

\* lines 180-184: str + None raises TypeError
Assemble(llm_text, context, route_err) ==
    IF IsNone(llm_text) THEN Raise("TypeError")
    ELSE Return(<<Lit("=== Sustainable Travel Itinerary ===")>> \o Val(llm_text)
                \o <<Lit("=== Raw Context ===")>> \o context
                \o (IF IsNone(route_err) THEN <<>>
                    ELSE <<Lit("RouteStatus: ")>> \o Val(route_err)))

ItinDistanceTexts ==
    {None} \cup {Some(t) : t \in {
        <<"0", " ", "k", "m">>,
        <<"0", ".", "5", " ", "k", "m">>,
        <<"5", "5", "2", " ", "k", "m">>,
        <<"7", "9", "9", ".", "9", " ", "k", "m">>,
        <<"8", "0", "0", " ", "k", "m">>,
        <<"8", "0", "0", ".", "0", " ", "k", "m">>,
        <<"1", ",", "2", "3", "4", " ", "k", "m">>,
        <<"1", ".", "2", ".", "3", " ", "k", "m">>,
        <<"3", "4", "3", " ", "m", "i">>,
        <<>>}}

\* lines 124-139: apiKey is "GOOGLE_API_KEY is set", configure the outcome of
\* genai.configure and GenerativeModel
ItineraryAgentInit(apiKey, configure) ==
    IF ~apiKey THEN [llm_ready |-> FALSE, init_error |-> Some(<<Lit("Missing GOOGLE_API_KEY")>>)]
    ELSE IF configure.kind = "raise"
    THEN [llm_ready |-> FALSE,
          init_error |-> Some(<<Lit("LLM init failed: "), Str(configure.exc)>>)]
    ELSE [llm_ready |-> TRUE, init_error |-> None]

\* A step of create_itinerary that raised: the trace so far and the locals
\* assigned so far.
Propagate(exc, ev, locals) == [out |-> Raise(exc), ev |-> ev, locals |-> locals]

\* lines 147-184, after chosen_mode and emissions are known
ItineraryRest(self, origin, destination, route, w, ev, locals, emissions) ==
    UNION {UNION {UNION {
        IF weather.out.kind = "raise"
        THEN {Propagate(weather.out.exc, ev \o weather.ev, locals)}
        ELSE IF air.out.kind = "raise"
        THEN {Propagate(air.out.exc, ev \o weather.ev \o air.ev, locals)}
        ELSE IF time_info.out.kind = "raise"
        THEN {Propagate(time_info.out.exc, ev \o weather.ev \o air.ev \o time_info.ev, locals)}
        ELSE LET context == Context(origin, destination, route, weather.out.val, air.out.val,
                                    time_info.out.val, emissions, locals.chosen_mode)
                 sofar == ev \o weather.ev \o air.ev \o time_info.ev
             IN  {[out |-> Assemble(llm.out.val, context, route.err),
                   ev |-> sofar \o llm.ev,
                   locals |-> locals] : llm \in LlmText(self, context, w.llm)}
        : time_info \in FetchCityTime(destination, w.geoTime, w.utc)}
        : air \in FetchAirQuality(destination, w.env, w)}
        : weather \in FetchWeather(destination, w.geo, w.weather)}

\* lines 141-184.  mode is the optional forced mode; w holds the environment
\* (mapsKey, csv, env, utc) and the answers each collaborator may give.
CreateItinerary(self, origin, destination, mode, w) ==
    UNION {
        LET route == r.out.val
            km == DistanceKm(route.distance)
            l1 == [distance_text |-> route.distance]
        IN  IF km.kind = "raise" THEN {Propagate(km.exc, r.ev, l1)}
            ELSE LET distance_km == km.val
                     chosen == ChosenMode(mode, distance_km)
                     l2 == [distance_text |-> route.distance, distance_km |-> distance_km,
                            chosen_mode |-> chosen.mode, threshold |-> chosen.threshold]
                 IN  UNION {
                        IF e.out.kind = "raise" THEN {Propagate(e.out.exc, r.ev \o e.ev, l2)}
                        ELSE ItineraryRest(self, origin, destination, route, w,
                                           r.ev \o e.ev, l2, e.out.val)
                        : e \in Emissions(w.csv, chosen.mode, distance_km)}
        : r \in SafeGetRoute(w.mapsKey, w.route)}

\* itinerary_tool (lines 217-220)
ForcedMode(mode) == IF mode = "auto" THEN None ELSE Some(mode)

ItineraryTool(origin, destination, mode, apiKey, configure, w) ==
    CreateItinerary(ItineraryAgentInit(apiKey, configure), origin, destination,
                    ForcedMode(mode), w)

(***************************************************************************)
(* The itinerary calls: an ItineraryAgent is constructed, and               *)
(* create_itinerary is called on it, or itinerary_tool is called (which    *)
(* constructs its own agent).  Each call is applied once.                  *)
(***************************************************************************)
Leg(text) == [distance |-> Some(text), duration |-> Some(Some(<<"5", "h">>))]
RouteOk(legs) == Answer(200, [json |-> "object", routes |-> <<[legs |-> legs]>>])

RouteAnswers ==
    {Failed("Timeout"), Answer(500, Null), Answer(200, InvalidJson), Answer(200, Null),
     Answer(200, [json |-> "object", routes |-> <<>>]),
     RouteOk(<<>>),
     RouteOk(<<[distance |-> None, duration |-> Some(None)]>>)}
      \cup {RouteOk(<<Leg(t)>>) : t \in ItinDistanceTexts}

ItinCsvFiles ==
    {[exists |-> FALSE, header |-> FullHeader, rows |-> <<>>],
     [exists |-> TRUE, header |-> FullHeader,
      rows |-> <<[mode |-> "train", grams |-> Some(Chars("41"))],
                 [mode |-> "car_electric", grams |-> Some(<<"5", "3">>)]>>]}

ForcedModes == {None, Some(""), Some("train"), Some("car_electric"), Some("spaceship")}
ToolModes == {"auto", "", "train", "spaceship"}

LlmAnswers ==
    {[gen |-> "raise", exc |-> "ResourceExhausted"],
     [gen |-> "no text attribute"],
     [gen |-> "text raises", exc |-> "ValueError"],
     [gen |-> "text", text |-> None],
     [gen |-> "text", text |-> Some("Day 1: walk.")]}

ConfigureOutcomes == {Return(Null), Raise("ValueError")}

ItinEnvs ==
    {[available |-> FALSE, forceJson |-> FALSE, autoAccept |-> FALSE,
      captureChain |-> FALSE, allowInsecure |-> FALSE],
     [available |-> TRUE, forceJson |-> TRUE, autoAccept |-> FALSE,
      captureChain |-> FALSE, allowInsecure |-> FALSE]}

AirFew ==
    {Failed("Timeout"),
     Answer(200, [json |-> "object",
                  hourly |-> Some([pm10 |-> Some("12.5"), pm2_5 |-> Some("7.1")])])}

WeatherFew ==
    {Failed("Timeout"),
     Answer(200, [json |-> "object",
                  current_weather |-> Some([temperature |-> Some("18.0"),
                                            windspeed |-> Some("5.0")])])}

ItinWorld(mapsKey, csv, env) ==
    [mapsKey |-> mapsKey, csv |-> csv, env |-> env, utc |-> UtcNow,
     route |-> RouteAnswers, geo |-> {GeoList(<<>>), GeoHit(23)}, weather |-> WeatherFew,
     geoTime |-> {GeoList(<<>>), GeoHit(23)},
     airJson |-> AirFew, airInsecure |-> AirFew, captures |-> {"ok"},
     airRich |-> {[rich |-> "ok"]}, overpass |-> {}, llm |-> LlmAnswers]

InitItinerary ==
    /\ csvFile = NoCsv
    /\ emCall = NoEstimate
    /\ emOut = Idle
    /\ fmtCall = None
    /\ fmtOut = Idle
    /\ NoTool
    /\ NoItinerary
    /\ NoSession

\* ia = ItineraryAgent()
ConstructAgent ==
    /\ agent = None
    /\ \E apiKey \in BOOLEAN, configure \in ConfigureOutcomes :
          agent' = Some(ItineraryAgentInit(apiKey, configure))
    /\ UNCHANGED <<itinCall, itinOut, itinEv, itinLocals, pureVars, toolVars, procVars, sessVars>>

FinishItinerary(call, r) ==
    /\ itinCall' = call
    /\ itinOut' = r.out
    /\ itinEv' = r.ev
    /\ itinLocals' = r.locals
    /\ UNCHANGED <<agent, pureVars, toolVars, procVars, sessVars>>

\* ia.create_itinerary(origin, destination, mode=...)
CreateItineraryCall ==
    /\ itinCall = NoCall
    /\ agent # None
    /\ \E mode \in ForcedModes, mapsKey \in BOOLEAN, csv \in ItinCsvFiles, env \in ItinEnvs :
          \E r \in CreateItinerary(Val(agent), "Lyon", "Paris", mode,
                                   ItinWorld(mapsKey, csv, env)) :
              FinishItinerary([op |-> "create_itinerary", mode |-> mode, csv |-> csv,
                               mapsKey |-> mapsKey, env |-> env], r)

\* itinerary_tool(origin, destination, mode)
ItineraryToolCall ==
    /\ itinCall = NoCall
    /\ agent = None
    /\ \E mode \in ToolModes, mapsKey \in BOOLEAN, csv \in ItinCsvFiles, env \in ItinEnvs,
          apiKey \in BOOLEAN :
          \E r \in ItineraryTool("Lyon", "Paris", mode, apiKey, Return(Null),
                                 ItinWorld(mapsKey, csv, env)) :
              FinishItinerary([op |-> "itinerary_tool", mode |-> ForcedMode(mode), csv |-> csv,
                               mapsKey |-> mapsKey, env |-> env, tool_mode |-> mode], r)

NextItinerary == ConstructAgent \/ CreateItineraryCall \/ ItineraryToolCall

SpecItinerary == InitItinerary /\ [][NextItinerary]_vars

(***************************************************************************)
(* get_route and get_weather (src/tools.py:67-110): the keyed operations   *)
(* of tools.py.  MAPS_API_KEY and WEATHER_API_KEY are read once, at import *)
(* (lines 53-54).                                                          *)
(* A body of the weather provider's answer is Null, [json |-> "list"] or   *)
(* [json |-> "object", weather |-> w, main |-> m]: w None (no such key) or *)
(* Some(sequence of [description |-> optional text]), m None or            *)
(* Some([temp |-> optional text]).                                         *)
(***************************************************************************)
\* lines 76-84: the try body; None when the if of line 82 is not taken
GetRouteBody(resp) ==
    LET j == GetJson(resp)
    IN  IF j.kind = "raise" THEN j
        ELSE IF j.val = Null THEN Raise("AttributeError")
        ELSE IF j.val.routes = <<>> THEN Return(None)
        ELSE IF j.val.routes[1].legs = <<>> THEN Raise("IndexError")
        ELSE LET leg == j.val.routes[1].legs[1]
             IN  IF IsNone(leg.distance) \/ IsNone(leg.duration) THEN Raise("KeyError")
                 ELSE Return(Some([distance |-> Val(leg.distance),
                                   duration |-> Val(leg.duration)]))

\* lines 85-89: both handlers print and fall through to return None, None
GetRouteHandlers(r) ==
    IF r.kind = "raise"
    THEN IF Catches("RequestException", r.exc) \/ Catches("KeyError", r.exc)
            \/ Catches("IndexError", r.exc)
         THEN Return([distance |-> None, duration |-> None])
         ELSE r
    ELSE IF IsNone(r.val) THEN Return([distance |-> None, duration |-> None])
    ELSE Return(Val(r.val))

\* lines 67-89
GetRoute(mapsKey, answers) ==
    IF ~mapsKey THEN {Result(Raise("RuntimeError"), <<>>)}
    ELSE {Result(GetRouteHandlers(GetRouteBody(resp)),
                 <<Req("maps.googleapis.com", TRUE, resp)>>) : resp \in answers}

\* lines 98-105: the try body
GetWeatherBody(resp) ==
    LET j == GetJson(resp)
    IN  IF j.kind = "raise" THEN j
        ELSE IF j.val = Null THEN Raise("TypeError")
        ELSE IF j.val.json = "list" \/ IsNone(j.val.weather) \/ IsNone(j.val.main)
        THEN Return(<<Lit("(weather data incomplete)")>>)
        ELSE IF Val(j.val.weather) = <<>> THEN Raise("IndexError")
        ELSE IF IsNone(Val(j.val.weather)[1].description) \/ IsNone(Val(j.val.main).temp)
        THEN Raise("KeyError")
        ELSE Return(<<Str(Val(Val(j.val.weather)[1].description)), Lit(", "),
                      Str(Val(Val(j.val.main).temp)), Lit("°F")>>)

\* lines 106-110
GetWeatherHandlers(r) ==
    IF r.kind = "raise" /\ (Catches("RequestException", r.exc) \/ Catches("KeyError", r.exc)
                              \/ Catches("IndexError", r.exc))
    THEN Return(<<Lit("(weather unavailable)")>>)
    ELSE r

\* lines 91-110
GetWeather(weatherKey, answers) ==
    IF ~weatherKey
    THEN {Result(Return(<<Lit("(weather unavailable: missing WEATHER_API_KEY)")>>), <<>>)}
    ELSE {Result(GetWeatherHandlers(GetWeatherBody(resp)),
                 <<Req("api.openweathermap.org", TRUE, resp)>>) : resp \in answers}

OwmAnswers ==
    {Failed("Timeout"), Answer(401, Null), Answer(200, InvalidJson), Answer(200, Null),
     Answer(200, [json |-> "list"])}
      \cup {Answer(200, [json |-> "object", weather |-> w, main |-> m]) :
              w \in {None, Some(<<>>), Some(<<[description |-> None]>>),
                     Some(<<[description |-> Some("clear sky")]>>)},
              m \in {None, Some([temp |-> None]), Some([temp |-> Some("71.3")])}}

\* get_route(origin, destination)
GetRouteCall ==
    /\ toolCall = NoCall
    /\ \E key \in BOOLEAN : \E r \in GetRoute(key, RouteAnswers) :
        /\ Finish([op |-> "get_route", key |-> key], r)
        /\ UNCHANGED procVars

\* get_weather(city)
GetWeatherCall ==
    /\ toolCall = NoCall
    /\ \E key \in BOOLEAN : \E r \in GetWeather(key, OwmAnswers) :
        /\ Finish([op |-> "get_weather", key |-> key], r)
        /\ UNCHANGED procVars

\* _safe_get_route(origin, destination)
SafeGetRouteCall ==
    /\ toolCall = NoCall
    /\ \E key \in BOOLEAN : \E r \in SafeGetRoute(key, RouteAnswers) :
        /\ Finish([op |-> "_safe_get_route", key |-> key], r)
        /\ UNCHANGED procVars

\* _amadeus_get_token()
AmadeusGetTokenCall ==
    /\ toolCall = NoCall
    /\ \E r \in AmadeusGetToken(amadeusCreds,
                                [token |-> amadeusToken, exp |-> amadeusTokenExp],
                                now, TokenAnswers) :
        /\ Finish([op |-> "_amadeus_get_token", key |-> amadeusCreds],
                  Result(Return(r.token), r.ev))
        /\ amadeusToken' = r.cache.token
        /\ amadeusTokenExp' = r.cache.exp
        /\ UNCHANGED <<amadeusCreds, now>>

NextTools ==
    \/ GeocodeCityCall
    \/ FetchWeatherCall
    \/ FetchCityTimeCall
    \/ FetchAirQualityCall
    \/ SearchHotelsCall
    \/ SearchHotelsRealtimeCall
    \/ GetRouteCall
    \/ GetWeatherCall
    \/ SafeGetRouteCall
    \/ AmadeusGetTokenCall

SpecTools == InitTools /\ [][NextTools]_vars

(***************************************************************************)
(* Properties of the itinerary calls (SpecItinerary).                      *)
(***************************************************************************)
ItineraryCalled == itinCall # NoCall

\* create_itinerary got as far as resolving the distance
DistanceResolved == ItineraryCalled /\ "distance_km" \in DOMAIN itinLocals

\* the distance is a number
NumericDistance == DistanceResolved /\ ~IsNone(itinLocals.distance_km)

IndexOf(s, x) == CHOOSE i \in 1..Len(s) : s[i] = x /\ \A j \in 1..(i - 1) : s[j] # x

\* The fragments of the result between the label `from` and the label `to`
Field(s, from, to) == SubSeq(s, IndexOf(s, Lit(from)) + 1, IndexOf(s, Lit(to)) - 1)

PreferredModeOf(s) == s[IndexOf(s, Lit("PreferredMode: ")) + 1]

EstimatorCalled ==
    \E i \in 1..Len(itinEv) :
        "call" \in DOMAIN itinEv[i] /\ itinEv[i].call = "estimate_transport_emissions"

\* C4: with no forced mode, for every resolved numeric distance d the chosen
\* mode is "train" when d < 800 km and "car_electric" when d >= 800 km.
C4_DefaultModeByThreshold ==
    (NumericDistance /\ IsNone(itinCall.mode)) =>
        itinLocals.chosen_mode =
            (IF DecLess(Val(itinLocals.distance_km), 800) THEN "train" ELSE "car_electric")

\* C5 as stated: every mode value passed by the caller (create_itinerary's
\* mode, or any itinerary_tool mode other than "auto") overrides the
\* threshold logic: the chosen mode and the result's PreferredMode equal the
\* forced value and the distance threshold is not consulted.
C5_EveryForcedModeOverrides ==
    (DistanceResolved /\ ~IsNone(itinCall.mode)) =>
        /\ itinLocals.chosen_mode = Val(itinCall.mode)
        /\ ~itinLocals.threshold
        /\ itinOut.kind = "return" => PreferredModeOf(itinOut.val) = Str(Val(itinCall.mode))

\* C5 amended: every non-empty forced mode overrides the threshold logic,
\* for every route outcome: once the distance is resolved the chosen mode is
\* the forced value, the threshold is not consulted, and the PreferredMode of
\* a returned result is the forced value.
C5_NonEmptyForcedModeOverrides ==
    (DistanceResolved /\ ~IsNone(itinCall.mode) /\ Val(itinCall.mode) # "") =>
        /\ itinLocals.chosen_mode = Val(itinCall.mode)
        /\ ~itinLocals.threshold
        /\ itinOut.kind = "return" => PreferredModeOf(itinOut.val) = Str(Val(itinCall.mode))

\* a forced "train" on a route of 1,234 km (where the default is
\* car_electric) gives a result whose PreferredMode is train
C5_Witness ==
    /\ itinCall # NoCall
    /\ itinCall.mode = Some("train")
    /\ itinOut.kind = "return"
    /\ DistanceResolved
    /\ itinLocals.distance_km = Some(Dec(1234, 0))
    /\ PreferredModeOf(itinOut.val) = Str("train")

\* C6: emissions are computed through the estimator if and only if a numeric
\* distance was obtained from the route; otherwise the Emissions field is
\* "(emissions unavailable)" and the estimator is not called.
C6_EstimatorIffNumericDistance ==
    DistanceResolved =>
        /\ EstimatorCalled <=> NumericDistance
        /\ (~NumericDistance /\ itinOut.kind = "return") =>
              Field(itinOut.val, "Emissions: ", "PreferredMode: ") = EmissionsUnavailable

(***************************************************************************)
(* Properties of the tool calls (SpecTools).                               *)
(***************************************************************************)
GeocodeFetchers ==
    {"fetch_weather", "fetch_air_quality_openmeteo", "fetch_city_time", "search_hotels",
     "search_hotels_realtime"}

IsGeocodeRequest(e) == "to" \in DOMAIN e /\ e.to = "nominatim"

\* the i-th event is a geocoding request that gave no coordinates
GeocodeFailedAt(i) == IsGeocodeRequest(toolEv[i]) /\ toolEv[i].resp \in GeoFailures

\* the call's geocoding of the place (its first geocoding request) failed
GeocodingFailed ==
    \E i \in 1..Len(toolEv) :
        /\ GeocodeFailedAt(i)
        /\ \A j \in 1..(i - 1) : ~IsGeocodeRequest(toolEv[j])

SaysCouldNotGeocode ==
    /\ toolOut.kind = "return"
    /\ \/ Has(toolOut.val, Lit("Could not geocode city '"))
       \/ Has(toolOut.val, Lit("Could not determine time for '"))

\* C9 as stated: when geocoding of the place fails, each geocoder-dependent
\* fetcher returns the could-not-geocode (or could-not-determine) string,
\* issues no provider request, and does not raise.
C9_NoProviderRequest ==
    (toolCall.op \in GeocodeFetchers /\ GeocodingFailed) =>
        /\ SaysCouldNotGeocode
        /\ \A i \in 1..Len(toolEv) : IsGeocodeRequest(toolEv[i])

\* C9 amended: when a geocoding request of a geocoder-dependent fetcher
\* fails, the fetcher returns a string holding the could-not-geocode (or
\* could-not-determine) message, sends no request after the failed one, and
\* does not raise.
C9_NoRequestAfterFailedGeocode ==
    toolCall.op \in GeocodeFetchers =>
        \A i \in 1..Len(toolEv) :
            GeocodeFailedAt(i) => (i = Len(toolEv) /\ SaysCouldNotGeocode)

\* search_hotels_realtime asked for a token, then failed to geocode
C9_Witness ==
    /\ toolCall.op = "search_hotels_realtime"
    /\ Len(toolEv) = 2
    /\ toolEv[1].to = TokenUrl
    /\ GeocodeFailedAt(2)
    /\ toolOut = Return(CouldNotGeocode(toolCall.city))

\* C10: geocode_city never propagates an error: whatever the outcome of its
\* request, it returns a (latitude, longitude) pair or None, and None on
\* every failing outcome.
C10_GeocodeNeverRaises ==
    toolCall.op = "geocode_city" =>
        /\ toolOut.kind = "return"
        /\ \/ IsNone(toolOut.val)
           \/ /\ Len(toolOut.val) = 1
              /\ DOMAIN Val(toolOut.val) = {"lat", "lon"}
              /\ Val(toolOut.val).lat \in Int /\ Val(toolOut.val).lon \in Int
        /\ toolEv[1].resp \in GeoFailures => IsNone(toolOut.val)

\* a latitude that is not a number: float() raised and None came back
C10_Witness ==
    /\ toolCall.op = "geocode_city"
    /\ toolEv[1].resp = GeoList(<<GeoItem(BadCell, Some([num |-> 23]))>>)
    /\ toolOut = Return(None)

(***************************************************************************)
(* Repeated geocode_city invocations (src/tools.py:330-353): the function  *)
(* keeps nothing between invocations, so each one is the same call again.  *)
(***************************************************************************)
MaxCalls == 3

Places == {"Paris", "Lyon"}

GeoSessionAnswers ==
    {Failed("SSLError"), Failed("Timeout"), Answer(500, Null), GeoList(<<>>),
     GeoList(<<GeoItem(BadCell, Some([num |-> 23]))>>), GeoHit(23)}

InitGeocode ==
    /\ csvFile = NoCsv
    /\ emCall = NoEstimate
    /\ emOut = Idle
    /\ fmtCall = None
    /\ fmtOut = Idle
    /\ NoTool
    /\ NoItinerary
    /\ NoSession

\* geocode_city(city), once more
GeocodeInvocation ==
    /\ Len(geoSession) < MaxCalls
    /\ \E city \in Places : \E r \in GeocodeCity(city, GeoSessionAnswers) :
          geoSession' = Append(geoSession, [city |-> city, out |-> r.out, ev |-> r.ev])
    /\ UNCHANGED <<pureVars, toolVars, procVars, itinVars, tokPc, tokLocal, tokLog, tokWrites, pkgVars>>

NextGeocode == GeocodeInvocation

SpecGeocode == InitGeocode /\ [][NextGeocode]_vars

\* The number of requests the invocations for place `city` have sent
RECURSIVE RequestsFor(_, _)
RequestsFor(city, session) ==
    IF session = <<>> THEN 0
    ELSE (IF Head(session).city = city THEN Len(Head(session).ev) ELSE 0)
           + RequestsFor(city, Tail(session))

InvocationsFor(city, session) ==
    Cardinality({i \in 1..Len(session) : session[i].city = city})

\* C11: each invocation of geocode_city issues at most one network request
\* (none is repeated after a failure) and nothing is cached: n invocations
\* for the same place name issue n requests.
C11_OneRequestPerInvocation ==
    /\ \A i \in 1..Len(geoSession) : Len(geoSession[i].ev) <= 1
    /\ \A city \in Places :
          RequestsFor(city, geoSession) = InvocationsFor(city, geoSession)

\* the same place asked for twice, the first request having failed: two
\* invocations, two requests
C11_Witness ==
    /\ Len(geoSession) = 2
    /\ geoSession[1].city = "Paris" /\ geoSession[2].city = "Paris"
    /\ geoSession[1].ev[1].resp = Failed("Timeout")
    /\ Len(geoSession[2].ev) = 1

(***************************************************************************)
(* Properties of fetch_air_quality_openmeteo (SpecTools).                  *)
(***************************************************************************)
AirCall == toolCall.op = "fetch_air_quality_openmeteo"

IsRichRequest(e) == "client" \in DOMAIN e
IsJsonRequest(e) == "verify" \in DOMAIN e /\ e.to = AirUrl

\* the call's geocoding request gave no coordinates
AirGeocodeFailed == \E i \in 1..Len(toolEv) : GeocodeFailedAt(i)

\* the call geocoded the city
AirGeocoded == \E i \in 1..Len(toolEv) : IsGeocodeRequest(toolEv[i]) /\ ~GeocodeFailedAt(i)

RichAttempted == \E i \in 1..Len(toolEv) : IsRichRequest(toolEv[i])
JsonAttempted == \E i \in 1..Len(toolEv) : IsJsonRequest(toolEv[i])

\* C12 as stated: the rich client is used if the optional dependencies are
\* present and OPENMETEO_FORCE_JSON is not "1"; the JSON-only request is
\* used if the dependencies are absent or OPENMETEO_FORCE_JSON is "1"; so a
\* fetch for a geocodable city always attempts one of the two variants.
C12_AlwaysOneVariant ==
    (AirCall /\ ~AirGeocodeFailed) =>
        /\ (toolCall.env.available /\ ~toolCall.env.forceJson) => RichAttempted
        /\ (~toolCall.env.available \/ toolCall.env.forceJson) =>
              (JsonAttempted /\ ~RichAttempted)

\* C12 amended: with the optional dependencies present, the rich client is
\* tried first unless OPENMETEO_FORCE_JSON is "1", in which case the JSON
\* request alone is used, so a geocoded city always has one of the two
\* attempted; with the dependencies absent no variant is attempted (the
\* city is not even geocoded) and the unavailable message is returned.
C12_VariantByDependencies ==
    AirCall =>
        /\ ~toolCall.env.available =>
              (toolEv = <<>> /\ toolOut = Return(UnavailableMsg))
        /\ (toolCall.env.available /\ AirGeocoded /\ ~toolCall.env.forceJson) =>
              (Len(toolEv) >= 2 /\ IsRichRequest(toolEv[2]))
        /\ (toolCall.env.available /\ AirGeocoded /\ toolCall.env.forceJson) =>
              (Len(toolEv) >= 2 /\ IsJsonRequest(toolEv[2]) /\ toolEv[2].verify
                 /\ ~RichAttempted)

\* the JSON request forced, on a geocoded city, and its data returned
C12_Witness ==
    /\ AirCall
    /\ toolCall.env.available /\ toolCall.env.forceJson
    /\ AirGeocoded
    /\ Len(toolEv) = 2 /\ IsJsonRequest(toolEv[2])
    /\ toolOut.kind = "return" /\ toolOut.val[1] = JsonDataPrefix

\* the i-th event is a verified JSON request that failed
VerifiedJsonFailedAt(i) ==
    /\ IsJsonRequest(toolEv[i]) /\ toolEv[i].verify
    /\ AirValues(toolEv[i].resp).kind = "raise"

NoTlsFlag ==
    /\ ~toolCall.env.autoAccept /\ ~toolCall.env.captureChain
    /\ ~toolCall.env.allowInsecure

\* C13: in the JSON path the default TLS policy is fail with guidance: a
\* request with certificate verification disabled is issued only if
\* OPENMETEO_AUTO_ACCEPT_UNVERIFIED or OPENMETEO_ALLOW_INSECURE is "1", a
\* certificate file is written only if OPENMETEO_CAPTURE_CHAIN is "1", and
\* with no flag set a failed verified request returns the guidance message.
C13_FailWithGuidance ==
    AirCall =>
        /\ \A i \in 1..Len(toolEv) :
              /\ ("verify" \in DOMAIN toolEv[i] /\ ~toolEv[i].verify) =>
                    (toolCall.env.autoAccept \/ toolCall.env.allowInsecure)
              /\ "write" \in DOMAIN toolEv[i] => toolCall.env.captureChain
        /\ \A i \in 1..Len(toolEv) :
              (NoTlsFlag /\ VerifiedJsonFailedAt(i)) =>
                  /\ i = Len(toolEv)
                  /\ toolOut = Return(GuidanceMsg(AirValues(toolEv[i].resp).exc))

\* no flag set, the verified request met a certificate failure, and the
\* guidance came back
C13_Witness ==
    /\ AirCall
    /\ NoTlsFlag
    /\ toolCall.env.forceJson
    /\ Len(toolEv) = 2
    /\ toolEv[2] = Req(AirUrl, TRUE, Failed("SSLError"))
    /\ toolOut = Return(GuidanceMsg("SSLError"))

(***************************************************************************)
(* Properties of the assembled itinerary (SpecItinerary).                  *)
(***************************************************************************)
ItineraryReturned == ItineraryCalled /\ itinOut.kind = "return"

HeaderLabel == "=== Sustainable Travel Itinerary ==="
ContextLabel == "=== Raw Context ==="

\* the itinerary body of a returned result
BodyOf(s) == Field(s, HeaderLabel, ContextLabel)

IsGenerateCall(e) == "call" \in DOMAIN e /\ e.call = "generate_content"

\* the agent's text-generation collaborator was unavailable in this call
LlmUnavailable ==
    /\ itinCall.op = "create_itinerary"
    /\ ~Val(agent).llm_ready

\* the generate call was made and failed
GenerateFailed ==
    \E i \in 1..Len(itinEv) : IsGenerateCall(itinEv[i]) /\ itinEv[i].resp.gen = "raise"

\* C14: whenever the text-generation collaborator is unavailable (no key,
\* failed initialisation) or its generate call fails, the itinerary body is
\* the fixed canned 5-day template.
C14_CannedOnUnavailableOrFailure ==
    (ItineraryReturned /\ (LlmUnavailable \/ GenerateFailed)) =>
        BodyOf(itinOut.val) = CannedItinerary

ContextLabels ==
    <<"Origin: ", "Destination: ", "Distance: ", " | Duration: ", "Weather: ",
      "AirQuality: ", "LocalTime: ", "Emissions: ", "PreferredMode: ">>

RouteStatusLabel == "RouteStatus: "

\* the directions request of the call was answered with a route whose leg
\* has a distance and a duration
RouteSucceeded ==
    \E i \in 1..Len(itinEv) :
        /\ "to" \in DOMAIN itinEv[i] /\ itinEv[i].to = "maps.googleapis.com"
        /\ itinEv[i].resp \in {RouteOk(<<Leg(t)>>) : t \in ItinDistanceTexts}

\* the labels occur in s, each once, in the order given
RECURSIVE InOrder(_, _, _)
InOrder(s, labels, from) ==
    IF labels = <<>> THEN TRUE
    ELSE /\ Cardinality({i \in 1..Len(s) : s[i] = Lit(Head(labels))}) = 1
         /\ IndexOf(s, Lit(Head(labels))) > from
         /\ InOrder(s, Tail(labels), IndexOf(s, Lit(Head(labels))))

\* C15: the result is, in this order, the header, the generated or canned
\* text, the raw context block (Origin, Destination, Distance/Duration,
\* Weather, AirQuality, LocalTime, Emissions, PreferredMode) and a
\* RouteStatus line, present if and only if route resolution returned an
\* error.
C15_ResultLayout ==
    ItineraryReturned =>
        LET s == itinOut.val
        IN  /\ s[1] = Lit(HeaderLabel)
            /\ InOrder(s, <<ContextLabel>> \o ContextLabels, 2)
            /\ Has(s, Lit(RouteStatusLabel)) <=> ~RouteSucceeded
            /\ Has(s, Lit(RouteStatusLabel)) =>
                  /\ IndexOf(s, Lit(RouteStatusLabel)) > IndexOf(s, Lit("PreferredMode: ")) + 1
                  /\ IndexOf(s, Lit(RouteStatusLabel)) < Len(s)

\* a result with the route resolved (no RouteStatus line), ending with the
\* PreferredMode field
C15_Witness ==
    /\ ItineraryReturned
    /\ RouteSucceeded
    /\ itinOut.val[1] = Lit(HeaderLabel)
    /\ IndexOf(itinOut.val, Lit("PreferredMode: ")) = Len(itinOut.val) - 1

IsDirectionsRequest(e) == "to" \in DOMAIN e /\ e.to = "maps.googleapis.com"

\* C16: with no directions-provider key configured, create_itinerary issues
\* no directions request and returns a result whose context block holds
\* "Distance: Unknown | Duration: Unknown", whose Emissions field is marked
\* unavailable and whose itinerary body is not empty.
C16_NoKeyItinerary ==
    (ItineraryCalled /\ ~itinCall.mapsKey) =>
        /\ \A i \in 1..Len(itinEv) : ~IsDirectionsRequest(itinEv[i])
        /\ itinOut.kind = "return"
        /\ Field(itinOut.val, "Distance: ", " | Duration: ") = <<Str("Unknown")>>
        /\ Field(itinOut.val, " | Duration: ", "Weather: ") = <<Str("Unknown")>>
        /\ Field(itinOut.val, "Emissions: ", "PreferredMode: ") = EmissionsUnavailable
        /\ BodyOf(itinOut.val) # <<>>

\* C17: no condition in the itinerary pipeline is fatal: whatever the
\* outcomes of the route lookup, distance parsing, emissions estimate,
\* weather, air-quality and time fetches and the text-generation call,
\* create_itinerary returns a string and never raises.
C17_ItineraryNeverRaises ==
    ItineraryCalled => itinOut.kind = "return"

\* The geocoding requests of the call, in order, and the answers of the
\* requests sent to a provider
GeocodeRequests == SelectSeq(itinEv, IsGeocodeRequest)

AnswersOf(provider) ==
    {itinEv[i].resp : i \in {j \in 1..Len(itinEv) :
        "verify" \in DOMAIN itinEv[j] /\ itinEv[j].to = provider}}

WeatherField == Field(itinOut.val, "Weather: ", "AirQuality: ")
AirField == Field(itinOut.val, "AirQuality: ", "LocalTime: ")
TimeField == Field(itinOut.val, "LocalTime: ", "Emissions: ")

\* What each fetcher gives for the destination on the answers its own
\* requests received in this call
WeatherGiven ==
    {r.out.val : r \in FetchWeather("Paris", {GeocodeRequests[1].resp}, AnswersOf("open-meteo"))}

AirGiven ==
    {r.out.val : r \in FetchAirQuality("Paris", itinCall.env,
        [geo |-> IF itinCall.env.available THEN {GeocodeRequests[2].resp} ELSE {},
         airJson |-> AnswersOf(AirUrl), airInsecure |-> {}, captures |-> {},
         airRich |-> {}])}

TimeGiven ==
    {r.out.val : r \in FetchCityTime("Paris", {GeocodeRequests[Len(GeocodeRequests)].resp},
                                     UtcNow)}

WeatherSucceeded == WeatherField[1] = Lit("Weather in ")
AirSucceeded == AirField[1] = JsonDataPrefix
TimeSucceeded == TimeField[1] = Lit("Approximate local time in ")

\* C18: the weather, air-quality and local-time fetches are failure-
\* isolated: whichever of them fail, each is invoked (each sends its own
\* geocoding request, the air-quality fetch unless its client is
\* unavailable) and the output of each, as it gave it, is in its own field
\* of the context block.
C18_FetchersIsolated ==
    ItineraryReturned =>
        /\ Len(GeocodeRequests) = 2 + (IF itinCall.env.available THEN 1 ELSE 0)
        /\ WeatherField \in WeatherGiven
        /\ AirField \in AirGiven
        /\ TimeField \in TimeGiven

\* the weather fetch failed; air quality and local time are in their fields
C18_Witness ==
    /\ ItineraryReturned
    /\ ~WeatherSucceeded
    /\ AirSucceeded
    /\ TimeSucceeded


(***************************************************************************)
(* Properties of the keyed operations (SpecTools).                         *)
(***************************************************************************)
KeyedOperations == {"get_route", "_safe_get_route", "get_weather", "_amadeus_get_token"}

AbsentKeyCall == toolCall # NoCall /\ toolCall.op \in KeyedOperations /\ ~toolCall.key

\* C19: a call of get_route, _safe_get_route, get_weather or
\* _amadeus_get_token made with its provider key absent returns a value to
\* the caller (raises no exception) and sends no request.
C19_AbsentKeyReturnsWithoutRequest ==
    AbsentKeyCall => toolOut.kind = "return" /\ toolEv = <<>>


(***************************************************************************)
(* _amadeus_get_token called from two threads (src/tools.py:528-562).      *)
(* _AMADEUS_TOKEN and _AMADEUS_TOKEN_EXP are module globals; the function  *)
(* takes no lock, so a thread switch can fall between any two reads or     *)
(* writes of them.  Each thread is at one of                               *)
(*   "idle"          not in the function                                   *)
(*   "read_token"    line 540, about to read _AMADEUS_TOKEN                *)
(*   "compare_exp"   line 540, about to read the clock and the expiry      *)
(*   "return_cached" line 541                                              *)
(*   "post"          line 543, about to send the token request             *)
(*   "store_token"   line 555                                              *)
(*   "store_exp"     lines 556-558                                         *)
(*   "return_stored" line 559                                              *)
(* tokLocal[t] holds what thread t has seen of the cache ("absent",        *)
(* "expired" or "valid"), the parsed answer j and, once the call is over,  *)
(* the value returned; tokLog lists the threads that sent a token request, *)
(* in order.                                                               *)
(***************************************************************************)
MaxRefreshes == 2
ClockStep == 900
MaxNow == 1800

NoLocal == <<>>

RefreshAnswers ==
    {Failed("SSLError"), Answer(200, Null), Answer(200, [json |-> "list"])}
      \cup {Answer(200, [json |-> "object", access_token |-> t, expires_in |-> x]) :
              t \in {None, Some("tok2")},
              x \in {None, Some([bad |-> "soon"])}}
      \cup {Answer(200, [json |-> "object", access_token |-> Some("tok3"),
                         expires_in |-> Some([num |-> 900])])}

OtherKeeps(t) ==
    /\ \A u \in Threads \ {t} : tokPc'[u] = tokPc[u] /\ tokLocal'[u] = tokLocal[u]
    /\ UNCHANGED <<pureVars, toolVars, itinVars, geoSession, pkgVars, amadeusCreds, now>>

\* the call in thread t is over and gave val
TokReturn(t, val) ==
    /\ tokPc' = [tokPc EXCEPT ![t] = "idle"]
    /\ tokLocal' = [tokLocal EXCEPT ![t] = <<[ret |-> val]>>]

\* thread t goes to line `pc` having seen `seen` and parsed `j`
TokGoto(t, pc, seen, j) ==
    /\ tokPc' = [tokPc EXCEPT ![t] = pc]
    /\ tokLocal' = [tokLocal EXCEPT ![t] = <<[seen |-> seen, j |-> j]>>]

\* lines 531-538: the call begins; without credentials it returns None
TokBegin(t) ==
    /\ tokPc[t] = "idle"
    /\ Len(tokLog) < MaxRefreshes
    /\ IF ~amadeusCreds THEN TokReturn(t, None)
       ELSE TokGoto(t, "read_token", "nothing", None)
    /\ UNCHANGED <<amadeusToken, amadeusTokenExp, tokLog, tokWrites>>
    /\ OtherKeeps(t)

\* line 540, left operand of `and`
TokReadToken(t) ==
    /\ tokPc[t] = "read_token"
    /\ IF TextTruthy(amadeusToken) THEN TokGoto(t, "compare_exp", "nothing", None)
       ELSE TokGoto(t, "post", "absent", None)
    /\ UNCHANGED <<amadeusToken, amadeusTokenExp, tokLog, tokWrites>>
    /\ OtherKeeps(t)

\* line 540, right operand of `and`
TokCompareExpiry(t) ==
    /\ tokPc[t] = "compare_exp"
    /\ IF now < amadeusTokenExp - SafetyMargin THEN TokGoto(t, "return_cached", "valid", None)
       ELSE TokGoto(t, "post", "expired", None)
    /\ UNCHANGED <<amadeusToken, amadeusTokenExp, tokLog, tokWrites>>
    /\ OtherKeeps(t)

\* line 541: the global is read again for the return
TokReturnCached(t) ==
    /\ tokPc[t] = "return_cached"
    /\ TokReturn(t, amadeusToken)
    /\ UNCHANGED <<amadeusToken, amadeusTokenExp, tokLog, tokWrites>>
    /\ OtherKeeps(t)

\* A variant of line 543 that waits while another thread is refreshing.
TokPostExclusive(t) ==
    /\ tokPc[t] = "post"
    /\ \A u \in Threads \ {t} : tokPc[u] \notin {"store_token", "store_exp", "return_stored"}
    /\ \E resp \in RefreshAnswers :
          LET j == GetJson(resp)
          IN  IF j.kind = "raise" \/ (j.val # Null /\ j.val.json = "list")
              THEN TokReturn(t, None)
              ELSE TokGoto(t, "store_token", Val(tokLocal[t]).seen, Some(j.val))
    /\ tokLog' = Append(tokLog, t)
    /\ UNCHANGED <<amadeusToken, amadeusTokenExp, tokWrites>>
    /\ OtherKeeps(t)

\* lines 543-554 and 560-562: the request, raise_for_status and json(); a
\* list body fails at j.get (AttributeError), caught like every exception
TokPost(t) ==
    /\ tokPc[t] = "post"
    /\ \E resp \in RefreshAnswers :
          LET j == GetJson(resp)
          IN  IF j.kind = "raise" \/ (j.val # Null /\ j.val.json = "list")
              THEN TokReturn(t, None)
              ELSE TokGoto(t, "store_token", Val(tokLocal[t]).seen, Some(j.val))
    /\ tokLog' = Append(tokLog, t)
    /\ UNCHANGED <<amadeusToken, amadeusTokenExp, tokWrites>>
    /\ OtherKeeps(t)

\* the place in tokLog of the last request thread t sent
LastRequestOf(t) == CHOOSE i \in 1..Len(tokLog) : tokLog[i] = t /\ \A k \in (i + 1)..Len(tokLog) : tokLog[k] # t

\* line 555: `resp.json() or {}` has no access_token when the body is null
TokStoreToken(t) ==
    /\ tokPc[t] = "store_token"
    /\ LET j == Val(Val(tokLocal[t]).j)
           tok == IF j = Null THEN None ELSE j.access_token
       IN  /\ amadeusToken' = tok
           /\ tokWrites' = Append(tokWrites, [global |-> "token", val |-> tok,
                                              req |-> LastRequestOf(t)])
    /\ TokGoto(t, "store_exp", Val(tokLocal[t]).seen, Val(tokLocal[t]).j)
    /\ UNCHANGED <<amadeusTokenExp, tokLog>>
    /\ OtherKeeps(t)

\* lines 556-558 and 560-562: an expires_in that is no number raises
\* TypeError at the addition, after the token has been stored
TokStoreExpiry(t) ==
    /\ tokPc[t] = "store_exp"
    /\ LET j == Val(Val(tokLocal[t]).j)
           exp == IF j = Null \/ IsNone(j.expires_in)
                  THEN Some([num |-> DefaultExpiresIn])
                  ELSE j.expires_in
       IN  IF "bad" \in DOMAIN Val(exp)
           THEN TokReturn(t, None) /\ UNCHANGED <<amadeusTokenExp, tokWrites>>
           ELSE /\ amadeusTokenExp' = now + Val(exp).num
                /\ tokWrites' = Append(tokWrites, [global |-> "exp", val |-> now + Val(exp).num,
                                                   req |-> LastRequestOf(t)])
                /\ TokGoto(t, "return_stored", Val(tokLocal[t]).seen, Val(tokLocal[t]).j)
    /\ UNCHANGED <<amadeusToken, tokLog>>
    /\ OtherKeeps(t)

\* line 559: the global is read again for the return
TokReturnStored(t) ==
    /\ tokPc[t] = "return_stored"
    /\ TokReturn(t, amadeusToken)
    /\ UNCHANGED <<amadeusToken, amadeusTokenExp, tokLog, tokWrites>>
    /\ OtherKeeps(t)

\* time.time() advances
Tick ==
    /\ now + ClockStep <= MaxNow
    /\ now' = now + ClockStep
    /\ UNCHANGED <<pureVars, toolVars, itinVars, sessVars, amadeusCreds, amadeusToken,
                   amadeusTokenExp>>

InitToken == InitTools

NextToken ==
    \/ \E t \in Threads : TokBegin(t)
    \/ \E t \in Threads : TokReadToken(t)
    \/ \E t \in Threads : TokCompareExpiry(t)
    \/ \E t \in Threads : TokReturnCached(t)
    \/ \E t \in Threads : TokPost(t)
    \/ \E t \in Threads : TokStoreToken(t)
    \/ \E t \in Threads : TokStoreExpiry(t)
    \/ \E t \in Threads : TokReturnStored(t)
    \/ Tick

SpecToken == InitToken /\ [][NextToken]_vars

(***************************************************************************)
(* Properties of the concurrent token calls (SpecToken).                   *)
(***************************************************************************)
Refreshing == {"store_token", "store_exp", "return_stored"}

PassedCheck(t) == tokPc[t] \in {"post"} \cup Refreshing

SawAbsentOrExpired(t) == Val(tokLocal[t]).seen \in {"absent", "expired"}

\* C20: the only guard of a refresh is the check of the cached token and
\* its expiry: a thread is past the check exactly after seeing the token
\* absent or expired, and a thread that passed the check can send its
\* token request wherever the other threads are, also while another one is
\* in the middle of its own refresh.
C20_RefreshGuardedByExpiryCheckOnly ==
    \A t \in Threads :
        /\ PassedCheck(t) => SawAbsentOrExpired(t)
        /\ tokPc[t] = "post" => ENABLED TokPost(t)

\* Two threads that both saw the token absent or expired have both sent a
\* token request and neither has finished its refresh.
C20_Witness ==
    /\ \A t \in Threads : tokPc[t] \in Refreshing /\ SawAbsentOrExpired(t)
    /\ \A t \in Threads : \E i \in 1..Len(tokLog) : tokLog[i] = t


(***************************************************************************)
(* Properties of the real-time hotel search (SpecTools).                   *)
(***************************************************************************)
RealtimeCalled == toolCall # NoCall /\ toolCall.op = "search_hotels_realtime"

\* the call returned the real-time listing
RealtimeListed ==
    /\ toolOut.kind = "return"
    /\ toolOut.val[1] = Lit("Real-time hotel prices (Amadeus) in ")

\* the openings of the parenthesised reasons (lines 576, 618, 625, 628, 650, 681, 693, 695)
ReasonOpenings ==
    {Lit("(Real-time pricing unavailable: missing or invalid Amadeus credentials)"),
     Lit("(Amadeus hotel listing error "), Lit("(Amadeus listing exception: "),
     Lit("(No hotel IDs from Amadeus geocode; fallback)"), Lit("(Offers request error "),
     Lit("(SSL error contacting Amadeus offers: "), Lit("(Amadeus offers exception: "),
     Lit("(No priced offers; fallback heuristic list)")}

Suffix(s, n) == SubSeq(s, Len(s) - n + 1, Len(s))

\* msg ends with what search_hotels(city, limit) returns, and ev with the
\* requests that call sent
EndsWithHeuristicSearch(msg, ev, city, limit) ==
    \E r \in SearchHotels(city, limit, [geo |-> RealtimeWorld.geoFallback,
                                        overpass |-> RealtimeWorld.overpass]) :
        /\ ~Raised(r)
        /\ Len(r.out.val) < Len(msg) /\ Suffix(msg, Len(r.out.val)) = r.out.val
        /\ Len(r.ev) <= Len(ev) /\ Suffix(ev, Len(r.ev)) = r.ev

\* the geocoding request of the real-time search itself gave no coordinates
RealtimeGeocodeFailed ==
    /\ RealtimeCalled
    /\ toolEv # <<>>
    /\ IsGeocodeRequest(toolEv[Len(toolEv)])
    /\ toolEv[Len(toolEv)].resp \in GeoFailures
    /\ toolOut = Return(CouldNotGeocode(toolCall.city))

\* C21: a call of search_hotels_realtime that does not end with the
\* real-time listing returns a parenthesised reason followed by the output
\* of search_hotels(city, limit), the heuristic search having run last.
C21_FallbackOnEveryFailure ==
    RealtimeCalled /\ ~RealtimeListed =>
        /\ toolOut.kind = "return"
        /\ toolOut.val[1] \in ReasonOpenings
        /\ EndsWithHeuristicSearch(toolOut.val, toolEv, toolCall.city, toolCall.limit)


(***************************************************************************)
(* Properties of the requests of one tool call (SpecTools).                *)
(***************************************************************************)
ToolCalled == toolCall # NoCall

IsRequest(e) == "to" \in DOMAIN e

\* the provider a request goes to: the three Amadeus endpoints are one host
Host(e) == IF e.to \in {TokenUrl, ListingUrl, OffersUrl} THEN "test.api.amadeus.com" ELSE e.to

\* the request got no usable answer: a transport error, an HTTP error
\* status, a body that is not JSON, an error of the rich client, or an
\* air-quality answer whose reading raised
RequestFailed(e) ==
    IF IsRichRequest(e) THEN e.resp.rich = "error"
    ELSE IF e.to = AirUrl THEN AirValues(e.resp).kind = "raise"
    ELSE e.resp.net # "ok" \/ e.resp.status >= 400 \/ e.resp.body = InvalidJson

\* a later request to the provider of a request that failed
SecondRequest(i, j) ==
    /\ i < j
    /\ IsRequest(toolEv[i]) /\ IsRequest(toolEv[j])
    /\ RequestFailed(toolEv[i])
    /\ Host(toolEv[i]) = Host(toolEv[j])

RichCertFailure(e) ==
    IsRichRequest(e) /\ e.resp.rich = "error"
        /\ (e.resp.certText \/ Catches("SSLError", e.resp.exc))

IsVerifiedJson(e) == IsJsonRequest(e) /\ e.verify
IsUnverifiedJson(e) == IsJsonRequest(e) /\ ~e.verify

AirRequests == SelectSeq(toolEv, LAMBDA e : IsRequest(e) /\ e.to = AirUrl)

IsEstimatorCall(e) == "call" \in DOMAIN e /\ e.call = "estimate_transport_emissions"
IsWeatherRequest(e) == "to" \in DOMAIN e /\ e.to = "open-meteo"
IsAirEvent(e) ==
    \/ "to" \in DOMAIN e /\ e.to = AirUrl
    \/ "socket" \in DOMAIN e
    \/ "write" \in DOMAIN e

\* the number of geocoding requests among the first i events
GeocodesUpTo(i) == Cardinality({j \in 1..i : IsGeocodeRequest(itinEv[j])})

\* The fetches that geocode, in the order of lines 147-149: the air-quality
\* fetch geocodes only with its optional dependencies present.
GeocodingFetches ==
    IF itinCall.env.available THEN <<"weather", "air", "time">> ELSE <<"weather", "time">>

StepNumber(step) ==
    CASE step = "route" -> 1
      [] step = "emissions" -> 2
      [] step = "weather" -> 3
      [] step = "air" -> 4
      [] step = "time" -> 5
      [] step = "generate" -> 6

\* the step of create_itinerary the i-th event belongs to
StepAt(i) ==
    LET e == itinEv[i]
    IN  IF IsDirectionsRequest(e) THEN "route"
        ELSE IF IsEstimatorCall(e) THEN "emissions"
        ELSE IF IsWeatherRequest(e) THEN "weather"
        ELSE IF IsAirEvent(e) THEN "air"
        ELSE IF IsGenerateCall(e) THEN "generate"
        ELSE IF IsGeocodeRequest(e) /\ GeocodesUpTo(i) <= Len(GeocodingFetches)
        THEN GeocodingFetches[GeocodesUpTo(i)]
        ELSE "unknown"

\* the context block of a returned result
ContextBlockOf(s) ==
    SubSeq(s, IndexOf(s, Lit(ContextLabel)) + 1,
           IF Has(s, Lit(RouteStatusLabel)) THEN IndexOf(s, Lit(RouteStatusLabel)) - 1
           ELSE Len(s))

AgentNames ==
    {"root_agent", "run_query", "weather_tool", "air_quality_tool",
     "transport_emissions_tool", "timer_tool", "itinerary_tool", "ItineraryAgent"}

PlaceholderNames ==
    {"run_query", "weather_tool", "air_quality_tool", "transport_emissions_tool", "timer_tool"}

ToolNames ==
    {"fetch_weather", "fetch_air_quality", "estimate_transport_emissions", "fetch_city_time",
     "geocode_city", "fetch_air_quality_openmeteo"}

PackageNames == AgentNames \cup {"starter_agent"} \cup ToolNames \cup {"get_version"}

\* lines 18-29 and 34-45: the names a successful import of agent binds
AgentBindings == [n \in AgentNames \cup {"starter_agent"} |-> "agent"]

\* lines 49-68
PlaceholderBindings ==
    [n \in PlaceholderNames \cup {"root_agent", "starter_agent"} |->
        IF n \in PlaceholderNames THEN "placeholder" ELSE "none"]

NoBindings == [n \in {} |-> "undefined"]

\* lines 17-68: the first handler whose class matches takes the exception;
\* a failure of the relative import is passed over (lines 46-47)
AgentImport(env) ==
    IF env.absolute = "ok" THEN AgentBindings
    ELSE IF Catches("ImportError", env.absolute)
    THEN IF env.package /\ env.relative = "ok" THEN AgentBindings ELSE NoBindings
    ELSE PlaceholderBindings

\* lines 70-86
ToolsImport(env) == [n \in ToolNames |-> IF env.tools = "ok" THEN "tools" ELSE "fallback"]

\* lines 15-110: the namespace the import leaves
ImportedNamespace(env) ==
    LET a == AgentImport(env)
        t == ToolsImport(env)
    IN  [n \in PackageNames |->
            IF n \in DOMAIN a THEN a[n]
            ELSE IF n \in DOMAIN t THEN t[n]
            ELSE IF n = "get_version" THEN "package"
            ELSE "undefined"]

\* package.<name>(...): the attribute access, then the call
UseExport(names, n) ==
    CASE names[n] = "undefined" -> Raise("AttributeError")
      [] names[n] = "none" -> Raise("TypeError")
      [] names[n] = "placeholder" -> Return(<<Lit("(agent framework unavailable)")>>)
      [] names[n] = "fallback" ->
            Return(CASE n = "fetch_weather" -> <<Lit("(weather unavailable)")>>
                     [] n = "fetch_air_quality" -> <<Lit("(air quality unavailable)")>>
                     [] n = "estimate_transport_emissions" -> <<Lit("(emissions unavailable)")>>
                     [] n = "fetch_city_time" -> <<Lit("(time unavailable)")>>
                     [] n = "geocode_city" -> <<>>
                     [] OTHER -> <<Lit("(openmeteo unavailable)")>>)
      [] n = "get_version" -> Return(<<Lit("0.1.2")>>)
      [] OTHER -> [kind |-> "delegated", to |-> names[n]]

ImportOutcomes == {"ok", "ImportError", "ModuleNotFoundError", "RuntimeError", "ValueError"}

PackageEnvs ==
    [absolute : ImportOutcomes, package : BOOLEAN, relative : ImportOutcomes,
     tools : {"ok", "ModuleNotFoundError", "ValueError"}]

InitPackage ==
    /\ csvFile = NoCsv
    /\ emCall = NoEstimate
    /\ emOut = Idle
    /\ fmtCall = None
    /\ fmtOut = Idle
    /\ NoTool
    /\ NoItinerary
    /\ geoSession = <<>>
    /\ tokPc = [t \in Threads |-> "idle"]
    /\ tokLocal = [t \in Threads |-> <<>>]
    /\ tokLog = <<>>
    /\ tokWrites = <<>>
    /\ pkgEnv \in PackageEnvs
    /\ pkgNames = None
    /\ pkgOut = Idle

\* import of the package
ImportPackage ==
    /\ pkgNames = None
    /\ pkgNames' = Some(ImportedNamespace(pkgEnv))
    /\ UNCHANGED <<pkgEnv, pkgOut, pureVars, toolVars, procVars, itinVars, geoSession,
                   tokPc, tokLocal, tokLog, tokWrites>>

\* a client uses an exported name
CallExport ==
    /\ pkgNames # None
    /\ pkgOut = Idle
    /\ \E n \in PackageNames \ {"root_agent", "starter_agent", "ItineraryAgent"} :
          pkgOut' = [name |-> n, out |-> UseExport(Val(pkgNames), n)]
    /\ UNCHANGED <<pkgEnv, pkgNames, pureVars, toolVars, procVars, itinVars, geoSession,
                   tokPc, tokLocal, tokLog, tokWrites>>

NextPackage == ImportPackage \/ CallExport

SpecPackage == InitPackage /\ [][NextPackage]_vars

(***************************************************************************)
(* Properties of the package's import (SpecPackage).                       *)
(***************************************************************************)
PackageImported == pkgNames # None

\* no import of the agent module succeeded
AgentImportFailed ==
    /\ pkgEnv.absolute # "ok"
    /\ ~(Catches("ImportError", pkgEnv.absolute) /\ pkgEnv.package /\ pkgEnv.relative = "ok")

\* C24: whenever importing the agent module fails, for whatever reason (an
\* ImportError for a missing dependency included), the package is imported
\* all the same and run_query, weather_tool, air_quality_tool,
\* transport_emissions_tool and timer_tool are defined and return
\* "(agent framework unavailable)".
C24_PlaceholdersOnAnyImportFailure ==
    (PackageImported /\ AgentImportFailed) =>
        /\ \A n \in PlaceholderNames : Val(pkgNames)[n] = "placeholder"
        /\ (pkgOut # Idle /\ pkgOut.name \in PlaceholderNames) =>
              pkgOut.out = Return(<<Lit("(agent framework unavailable)")>>)


(***************************************************************************)
(* Properties of fetch_city_time (SpecTools).                              *)
(***************************************************************************)
\* fetch_city_time was called and its geocoding request gave a longitude
TimeCallGeocoded ==
    /\ toolCall # NoCall /\ toolCall.op = "fetch_city_time"
    /\ toolEv # <<>>
    /\ toolEv[1].resp \in {GeoHit(lon) : lon \in Lons}

\* that longitude, in tenths of a degree
GeocodedLon == Val(toolEv[1].resp.body.items[1].lon).num

\* the offset applied: the distance of the time shown from the clock read
AppliedOffset == (toolOut.val[4].time - (UtcNow + now)) \div SecondsPerHour

\* C25: for every geocoded longitude in [-180, 180], fetch_city_time shifts
\* the clock by a whole number of hours, the integer nearest to lon/15,
\* which lies in -12..12, and labels it "UTC" when it is 0, "UTC+n" when
\* positive and "UTC-n" when negative; the result holds "Approximate local
\* time in <city>" and "UTC".
C25_OffsetFromLongitude ==
    TimeCallGeocoded =>
        /\ toolOut.kind = "return"
        /\ toolOut.val[1] = Lit("Approximate local time in ")
        /\ toolOut.val[2] = Str(toolCall.city)
        /\ Has(toolOut.val, Lit("UTC"))
        /\ toolOut.val[4].time = UtcNow + now + AppliedOffset * SecondsPerHour
        /\ AppliedOffset \in -12..12
        /\ 2 * Abs(GeocodedLon - 150 * AppliedOffset) <= 150
        /\ LET label == SubSeq(toolOut.val, 6, Len(toolOut.val) - 1)
           IN  label = IF AppliedOffset = 0 THEN <<Lit("UTC")>>
                       ELSE IF AppliedOffset > 0
                       THEN <<Lit("UTC"), Lit("+"), Num(AppliedOffset)>>
                       ELSE <<Lit("UTC"), Num(AppliedOffset)>>

\* San Francisco's longitude, -122.4: eight hours behind, labelled UTC-8
C25_Witness ==
    /\ TimeCallGeocoded
    /\ GeocodedLon = -1224
    /\ AppliedOffset = -8
    /\ SubSeq(toolOut.val, 6, 7) = <<Lit("UTC"), Num(-8)>>


(***************************************************************************)
(* Properties of one _amadeus_get_token call (SpecTools).                  *)
(***************************************************************************)
\* this step is a call of _amadeus_get_token
TokenCallStep == toolCall = NoCall /\ toolCall' # NoCall /\ toolCall'.op = "_amadeus_get_token"

\* before the call: credentials set, a token cached, and the clock more
\* than 60 seconds before the cached expiry
CacheUsable ==
    amadeusCreds /\ TextTruthy(amadeusToken) /\ now < amadeusTokenExp - SafetyMargin

\* the call sent one token request and returned None
RefreshFailedStep == Len(toolEv') = 1 /\ toolOut' = Return(None)

\* C26: _amadeus_get_token returns the cached token without a request if
\* and only if credentials are set, a token is cached and the clock is more
\* than 60 seconds before the cached expiry; otherwise it sends exactly one
\* refresh request, and a failed refresh returns None and leaves the cached
\* token and expiry as they were.
C26_CachedOrOneRefresh ==
    [][TokenCallStep =>
          /\ CacheUsable =>
                (toolEv' = <<>> /\ toolOut' = Return(amadeusToken)
                   /\ amadeusToken' = amadeusToken /\ amadeusTokenExp' = amadeusTokenExp)
          /\ ~CacheUsable =>
                /\ Len(toolEv') = 1 /\ toolEv'[1].to = TokenUrl
                /\ RefreshFailedStep =>
                      (amadeusToken' = amadeusToken /\ amadeusTokenExp' = amadeusTokenExp)
      ]_vars


(***************************************************************************)
(* Properties of the cache after concurrent token calls (SpecToken).       *)
(***************************************************************************)
AllIdle == \A t \in Threads : tokPc[t] = "idle"

WritesOf(global) == SelectSeq(tokWrites, LAMBDA w : w.global = global)

LastWrite(global) == WritesOf(global)[Len(WritesOf(global))]

\* The token and the expiry in the cache come from the answer to one
\* request (or are both as they were before any refresh).
PairFromOneRefresh ==
    IF WritesOf("token") = <<>> THEN WritesOf("exp") = <<>>
    ELSE /\ WritesOf("exp") # <<>>
         /\ LastWrite("token").req = LastWrite("exp").req

\* the expiry that the refresh which gave the cached token has computed
OwnExpiryKnown ==
    /\ WritesOf("token") # <<>>
    /\ \E i \in 1..Len(tokWrites) :
          tokWrites[i].global = "exp" /\ tokWrites[i].req = LastWrite("token").req

OwnExpiry ==
    tokWrites[CHOOSE i \in 1..Len(tokWrites) :
                tokWrites[i].global = "exp" /\ tokWrites[i].req = LastWrite("token").req].val

\* thread t returns the cached token in this step (line 541)
HandsCachedToken(t) ==
    tokPc[t] = "return_cached" /\ tokPc'[t] = "idle" /\ TextTruthy(amadeusToken)

\* C27: once the concurrent _amadeus_get_token calls are over, the cached
\* token and the cached expiry come from the same refresh response, and a
\* caller is never handed a cached token past its own expiry.
C27_CachePairConsistent ==
    [][/\ AllIdle' => PairFromOneRefresh'
       /\ \A t \in Threads :
             HandsCachedToken(t) =>
                 /\ WritesOf("token") = <<>> => now < amadeusTokenExp
                 /\ WritesOf("token") # <<>> => (OwnExpiryKnown /\ now < OwnExpiry)
      ]_vars


(***************************************************************************)
(* Properties of the TLS ladder of the air-quality JSON request            *)
(* (SpecTools).                                                            *)
(***************************************************************************)
\* the place of the verified JSON request in the call's events, if it failed
FailedVerifiedJson == {i \in 1..Len(toolEv) : VerifiedJsonFailedAt(i)}

\* the branch the flags choose, in the order of lines 183, 206, 225, 248
ChosenBranch ==
    IF toolCall.env.autoAccept THEN "auto"
    ELSE IF toolCall.env.captureChain THEN "capture"
    ELSE IF toolCall.env.allowInsecure THEN "insecure"
    ELSE "guidance"

\* how each branch's results open: its success and its error string
BranchOpenings(branch) ==
    CASE branch = "auto" ->
            [ok |-> Lit("(Insecure auto-accepted SSL) Open-Meteo JSON data for "),
             error |-> Lit("Open-Meteo SSL error. Insecure auto attempt failed. JSON error: ")]
      [] branch = "capture" ->
            [ok |-> Lit("Open-Meteo SSL error. Wrote leaf certificate to '"),
             error |-> Lit("Open-Meteo SSL error and certificate capture failed. Error: ")]
      [] branch = "insecure" ->
            [ok |-> Lit("Insecure SSL bypass (NOT recommended) succeeded. Set OPENMETEO_ALLOW_INSECURE=0 to disable. "),
             error |-> Lit("Open-Meteo SSL error; insecure bypass also failed. JSON fallback error: ")]
      [] OTHER -> [ok |-> GuidanceMsg("")[1], error |-> GuidanceMsg("")[1]]

UnverifiedRequests == {i \in 1..Len(toolEv) : IsUnverifiedJson(toolEv[i])}

IsCaptureEvent(e) == "socket" \in DOMAIN e \/ "write" \in DOMAIN e

\* what the branch entered after the i-th event did, seen from the events
BranchSucceeded(i) ==
    CASE ChosenBranch \in {"auto", "insecure"} ->
            Len(toolEv) = i + 1 /\ AirValues(toolEv[i + 1].resp).kind = "return"
      [] ChosenBranch = "capture" ->
            Len(toolEv) = i + 2 /\ toolOut.val[1] = BranchOpenings("capture").ok
      [] OTHER -> TRUE

\* C28: when the verified air-quality JSON request fails, exactly one TLS
\* branch is evaluated, chosen in the order OPENMETEO_AUTO_ACCEPT_UNVERIFIED,
\* OPENMETEO_CAPTURE_CHAIN, OPENMETEO_ALLOW_INSECURE, default guidance; a
\* failure inside the chosen branch returns that branch's error string and
\* no later branch is tried, so a fetch sends at most one unverified request.
C28_OneBranchInFixedOrder ==
    (ToolCalled /\ AirCall) =>
        /\ Cardinality(UnverifiedRequests) <= 1
        /\ Cardinality(FailedVerifiedJson) <= 1
        /\ FailedVerifiedJson = {} =>
              \A i \in 1..Len(toolEv) :
                  ~IsUnverifiedJson(toolEv[i]) /\ ~IsCaptureEvent(toolEv[i])
        /\ \A i \in FailedVerifiedJson :
              /\ toolOut.kind = "return"
              /\ toolOut.val[1] = (IF BranchSucceeded(i) THEN BranchOpenings(ChosenBranch).ok
                                   ELSE BranchOpenings(ChosenBranch).error)
              /\ ChosenBranch \in {"auto", "insecure"} =>
                    (Len(toolEv) = i + 1 /\ IsUnverifiedJson(toolEv[i + 1]))
              /\ ChosenBranch = "capture" =>
                    /\ Len(toolEv) > i
                    /\ \A j \in (i + 1)..Len(toolEv) : IsCaptureEvent(toolEv[j])
              /\ ChosenBranch = "guidance" => Len(toolEv) = i

\* all three flags set: the auto-accept branch alone runs, its unverified
\* request fails, and its error string comes back
C28_Witness ==
    /\ ToolCalled /\ AirCall
    /\ toolCall.env.autoAccept /\ toolCall.env.captureChain /\ toolCall.env.allowInsecure
    /\ \E i \in FailedVerifiedJson :
          /\ Len(toolEv) = i + 1
          /\ IsUnverifiedJson(toolEv[i + 1])
          /\ AirValues(toolEv[i + 1].resp).kind = "raise"
    /\ toolOut.val[1] = BranchOpenings("auto").error


(***************************************************************************)
(* Properties of the hotel listings (SpecTools).                           *)
(***************************************************************************)
\* search_hotels returned a listing
HeuristicListed ==
    /\ toolCall # NoCall /\ toolCall.op = "search_hotels"
    /\ toolOut.kind = "return" /\ toolOut.val[1] = Lit("Top ")

\* the hotels the Overpass answer holds, as lines 475-498 read them
HotelsFound ==
    LET elements == toolEv[Len(toolEv)].resp.body.elements
    IN  [i \in 1..Len(elements) |-> Enrich(elements[i])]

HeuristicLines == SubSeq(toolOut.val, 6, Len(toolOut.val) - 1)

\* the parsable totals of an offers entry
ParsableTotals(entry) ==
    {Val(entry.offers[i].total).num :
        i \in {j \in 1..Len(entry.offers) :
                 ~IsNone(entry.offers[j].total) /\ "num" \in DOMAIN Val(entry.offers[j].total)}}

SetMin(S) == CHOOSE x \in S : \A y \in S : x <= y

OffersData == toolEv[Len(toolEv)].resp.body.data

RealtimeLines == SubSeq(toolOut.val, 4, Len(toolOut.val) - 1)

\* f picks, for each of the lines, a different hotel among n
Picks(f, lines, n) ==
    /\ DOMAIN f = 1..Len(lines)
    /\ \A i \in 1..Len(lines) : f[i] \in 1..n
    /\ \A i, j \in 1..Len(lines) : i # j => f[i] # f[j]

\* the lines show hotels found, cheapest first, none dearer than a hotel left out
HeuristicCheapestFirst ==
    \E f \in [1..Len(HeuristicLines) -> 1..Len(HotelsFound)] :
        /\ Picks(f, HeuristicLines, Len(HotelsFound))
        /\ \A i \in 1..Len(HeuristicLines) : HeuristicLines[i] = HotelLine(HotelsFound[f[i]])
        /\ \A i, j \in 1..Len(HeuristicLines) :
              i < j => HotelsFound[f[i]].mid_price <= HotelsFound[f[j]].mid_price
        /\ \A i \in 1..Len(HeuristicLines) :
              \A m \in 1..Len(HotelsFound) :
                  (\A j \in 1..Len(HeuristicLines) : f[j] # m) =>
                      HotelsFound[f[i]].mid_price <= HotelsFound[m].mid_price

RealtimeCheapestFirst ==
    \E f \in [1..Len(RealtimeLines) -> 1..Len(OffersData)] :
        /\ Picks(f, RealtimeLines, Len(OffersData))
        /\ \A i \in 1..Len(RealtimeLines) :
              /\ ParsableTotals(OffersData[f[i]]) # {}
              /\ RealtimeLines[i].total = Fix(SetMin(ParsableTotals(OffersData[f[i]])), 2)
              /\ RealtimeLines[i].hotel = OrElse(OffersData[f[i]].name, "(unnamed)")
        /\ \A i, j \in 1..Len(RealtimeLines) :
              i < j => SetMin(ParsableTotals(OffersData[f[i]]))
                          <= SetMin(ParsableTotals(OffersData[f[j]]))
        /\ \A i \in 1..Len(RealtimeLines) :
              \A m \in 1..Len(OffersData) :
                  ((\A j \in 1..Len(RealtimeLines) : f[j] # m)
                     /\ ParsableTotals(OffersData[m]) # {}) =>
                      SetMin(ParsableTotals(OffersData[f[i]]))
                          <= SetMin(ParsableTotals(OffersData[m]))

\* C29: both hotel searches list at most `limit` hotels, in order of
\* non-decreasing price (the estimated midpoint in search_hotels, the
\* cheapest offer total in search_hotels_realtime), and no hotel listed is
\* dearer than a hotel found but left out; the real-time search lists only
\* hotels with a parsable offer price and asks offers for at most 20 ids.
C29_CheapestWithinLimit ==
    /\ HeuristicListed =>
          (Len(HeuristicLines) <= toolCall.limit /\ HeuristicCheapestFirst)
    /\ (RealtimeCalled /\ RealtimeListed) =>
          (Len(RealtimeLines) <= toolCall.limit /\ RealtimeCheapestFirst)
    /\ RealtimeCalled =>
          \A i \in 1..Len(toolEv) : "ids" \in DOMAIN toolEv[i] => toolEv[i].ids <= MaxHotelIds

====
